---- MODULE Spec2Model ----
(***************************************************************************)
(* GhostType server: the per-connection session of server/app/main.py      *)
(* (websocket_endpoint and its nested handle_stop), with the client that   *)
(* feeds it, the worker that decodes the audio and the recognizer (Spec);   *)
(* and one call of the Ogg-Opus muxer of server/app/utils/audio.py,        *)
(* followed statement by statement (MuxSpec).                              *)
(*                                                                         *)
(* Encodings.  An Optional value is a sequence of length at most one:      *)
(* None is << >> and a value v is <<v>>.  A string whose characters        *)
(* matter (a trace id) is a sequence of one-character strings.  An Opus    *)
(* packet is modelled by its length in bytes.  A 32-bit quantity is a pair *)
(* <<hi, lo>> of 16-bit limbs, so that the arithmetic keeps its width.     *)
(***************************************************************************)
EXTENDS Integers, Sequences, FiniteSets, TLC

\* ------------------------------------------------------------------ bounds
\* Messages the client sends over the life of one connection.
MaxMsgs == 4
\* Messages that may wait in the socket's receive queue.
MaxInbox == 1
\* Packets in one call of the muxer.
MaxMuxPackets == 2
\* Bytes of an audio packet whose page is built byte by byte.
MaxPacketBytes == 2

\* ------------------------------------------------------- program constants
DefaultSampleRate == 48000
OutputSampleRate == 16000
TraceIdLen == 6
AlphabetSize == 62
MaxSegments == 255
PreSkip == 312
GranuleRate == 48000
FramesPerSecond == 50
OpusHeadLen == 19
OpusTagsLen == 25

None == << >>
Some(v) == <<v>>

\* ---------------------------------------------------------------- trace id
Alphabet ==
  << "0","1","2","3","4","5","6","7","8","9",
     "a","b","c","d","e","f","g","h","i","j","k","l","m",
     "n","o","p","q","r","s","t","u","v","w","x","y","z",
     "A","B","C","D","E","F","G","H","I","J","K","L","M",
     "N","O","P","Q","R","S","T","U","V","W","X","Y","Z" >>

AlphabetChars == { Alphabet[i] : i \in 1..Len(Alphabet) }

\* str.strip(): the characters Python strips that the inputs here can hold.
Whitespace == { " ", "\n" }

RECURSIVE LStrip(_)
LStrip(s) ==
  IF s # << >> /\ Head(s) \in Whitespace THEN LStrip(Tail(s)) ELSE s

RECURSIVE RStrip(_)
RStrip(s) ==
  IF s # << >> /\ s[Len(s)] \in Whitespace
    THEN RStrip(SubSeq(s, 1, Len(s) - 1))
    ELSE s

Strip(s) == RStrip(LStrip(s))

\* micros & 0xFFFFFFFF: the clock is four 16-bit limbs, most significant
\* first; the mask keeps the low two.
Mask32(micros) == << micros[3], micros[4] >>

\* n % 62 and n // 62 of a 32-bit n = hi * 2^16 + lo, by long division.
Mod62(n) == (((n[1] % AlphabetSize) * 65536) + n[2]) % AlphabetSize

Div62(n) ==
  << n[1] \div AlphabetSize,
     (((n[1] % AlphabetSize) * 65536) + n[2]) \div AlphabetSize >>

\* The loop of _generate_trace_id: k digits, least significant first.
RECURSIVE Base62Digits(_, _)
Base62Digits(n, k) ==
  IF k = 0 THEN << >>
  ELSE << Alphabet[Mod62(n) + 1] >> \o Base62Digits(Div62(n), k - 1)

RECURSIVE Reversed(_)
Reversed(s) ==
  IF s = << >> THEN << >> ELSE Reversed(Tail(s)) \o << Head(s) >>

\* (Long: one digit too many, the loop bound off by one.)
GenerateTraceIdLong(micros) ==
  Reversed(Base62Digits(Mask32(micros), TraceIdLen + 1))

GenerateTraceId(micros) ==
  Reversed(Base62Digits(Mask32(micros), TraceIdLen))

\* Readings of time.time_ns() // 1000 (about 2^50 today), as limbs:
\* 1730648481988607 (low 32 bits all ones) and 1730646000123456.
Clocks ==
  { << 6, 9731, 65535, 65535 >>,
    << 6, 9731, 27665, 48704 >> }

\* ------------------------------------------------------------ the messages
\* The fields of a start message, each Optional (absent from the JSON or
\* present).  A supplied trace_id is [isStr, s]: a JSON string s, or a JSON
\* value of another type.
StartPayloads ==
  { [trace_id |-> None, sample_rate |-> None,
     context |-> None, use_cloud_api |-> None],
    [trace_id |-> Some([isStr |-> TRUE, s |-> << " ", "b", " " >>]),
     sample_rate |-> Some(16000),
     context |-> Some({ << "app_name", "TestScript" >> }),
     use_cloud_api |-> Some(TRUE)],
    [trace_id |-> Some([isStr |-> TRUE, s |-> << " " >>]),
     sample_rate |-> Some(44100),
     context |-> None, use_cloud_api |-> Some(FALSE)],
    [trace_id |-> Some([isStr |-> FALSE, s |-> << >>]),
     sample_rate |-> Some(16000),
     context |-> None, use_cloud_api |-> None] }

NoPayload ==
  [trace_id |-> None, sample_rate |-> None,
   context |-> None, use_cloud_api |-> None]

\* Opus packets, by length: an ordinary 20 ms frame, and one too large for
\* a single Ogg page.
Packets == { 80, 65025 }

\* The "type" member of a JSON text frame ("None" when the object has none).
MsgTypes == { "ping", "start", "stop", "garble", "None" }

\* `malformed` names the member of a JSON text whose value is not of the
\* type the handler needs ("" when there is none).
TextFrame(t, p) ==
  [kind |-> "text", json |-> TRUE, type |-> t, payload |-> p, pkt |-> 0,
   malformed |-> ""]

BadJsonFrame ==
  [kind |-> "text", json |-> FALSE, type |-> "None",
   payload |-> NoPayload, pkt |-> 0, malformed |-> ""]

BinaryFrame(b) ==
  [kind |-> "bytes", json |-> FALSE, type |-> "None",
   payload |-> NoPayload, pkt |-> b, malformed |-> ""]

\* JSON texts that parse but are not what the handler reads: a value that
\* is not an object (`[]`: payload.get does not exist), a start whose
\* sample_rate is the string "abc" (int() raises), a start whose context is
\* the string "abc" (dict() raises).  The trace id they carry is " b ".
MalformedStartPayload ==
  [trace_id |-> Some([isStr |-> TRUE, s |-> << " ", "b", " " >>]),
   sample_rate |-> Some(16000), context |-> None, use_cloud_api |-> None]

MalformedFrames ==
  { [kind |-> "text", json |-> TRUE, type |-> "None",
     payload |-> NoPayload, pkt |-> 0, malformed |-> "payload"] }
    \cup { [kind |-> "text", json |-> TRUE, type |-> "start",
            payload |-> MalformedStartPayload, pkt |-> 0, malformed |-> m] :
              m \in { "sample_rate", "context" } }

\* The websocket.disconnect message.
DisconnectFrame ==
  [kind |-> "disconnect", json |-> FALSE, type |-> "None",
   payload |-> NoPayload, pkt |-> 0, malformed |-> ""]

ClientFrames ==
  { TextFrame(t, NoPayload) : t \in MsgTypes \ { "start" } }
    \cup { TextFrame("start", p) : p \in StartPayloads }
    \cup { BadJsonFrame }
    \cup MalformedFrames
    \cup { BinaryFrame(b) : b \in Packets }

\* Outbound messages.  An error's text is <<prefix, detail>>; is_final is
\* Optional, as only fast_text has the member.
NoContent == [kind |-> "none", n |-> 0, sr |-> 0]

Pong ==
  [type |-> "pong", trace_id |-> None, message |-> << "", "" >>,
   content |-> NoContent, is_final |-> None]

\* _send_error: trace_id is included only when truthy.
ErrorMsg(prefix, detail, tid) ==
  [type |-> "error",
   trace_id |-> IF tid # None /\ tid[1] # << >> THEN tid ELSE None,
   message |-> << prefix, detail >>,
   content |-> NoContent, is_final |-> None]

FastText(tid, text) ==
  [type |-> "fast_text", trace_id |-> tid, message |-> << "", "" >>,
   content |-> text, is_final |-> Some(TRUE)]

\* Texts of the recognizer.  (Swapped: the two numbers exchanged.)
StubTextSwapped(n, sr) == [kind |-> "stub", n |-> sr, sr |-> n]

StubText(n, sr) == [kind |-> "stub", n |-> n, sr |-> sr]
EmptyText == [kind |-> "text", n |-> 0, sr |-> 0]
SomeText == [kind |-> "text", n |-> 1, sr |-> 0]
AsrErrorText == [kind |-> "asr_error", n |-> 0, sr |-> 0]

\* ------------------------------------------------- utils/audio.py, abstractly
SupportedOpusRates == { 8000, 12000, 16000, 24000, 48000 }

\* len(_segment_table_for_packet(n)): one 255 per whole 255 bytes, then
\* one closing value.
SegmentTableLen(n) == (n \div 255) + 1

\* `len(lacing) > 255` is refused.  (Lenient: one segment more is let by.)
PageFitsLenient(n) == SegmentTableLen(n) <= MaxSegments + 1

PageFits(n) == SegmentTableLen(n) <= MaxSegments

\* packets_to_ogg_opus_bytes raises ValueError: the rate is checked first,
\* then the pages are built in order.
MuxError(packets, rate) ==
  IF rate \notin SupportedOpusRates THEN "Unsupported sample rate"
  ELSE IF \E i \in 1..Len(packets) : ~PageFits(packets[i])
    THEN "packet too large for single Ogg page in this MVP writer"
  ELSE ""

\* What decode_opus_packets_to_pcm_s16le can do with a packet list: return
\* PCM (modelled by its byte count) or raise.  The media decoder is outside
\* the repository: on a well-formed stream it may still reject the Opus
\* payload, and the PCM may be empty or hold the 640 bytes of each frame.
\* (Always muxing: without the early return for an empty list.)
DecodeOutcomesAlwaysMuxing(packets, rate) ==
  IF MuxError(packets, rate) # ""
    THEN { [ok |-> FALSE, pcm |-> 0, err |-> MuxError(packets, rate)] }
  ELSE { [ok |-> TRUE, pcm |-> n, err |-> ""] : n \in { 0, 640 * Len(packets) } }
         \cup { [ok |-> FALSE, pcm |-> 0, err |-> "av error"] }

DecodeOutcomes(packets, rate) ==
  IF packets = << >> THEN { [ok |-> TRUE, pcm |-> 0, err |-> ""] }
  ELSE IF MuxError(packets, rate) # ""
    THEN { [ok |-> FALSE, pcm |-> 0, err |-> MuxError(packets, rate)] }
  ELSE { [ok |-> TRUE, pcm |-> n, err |-> ""] : n \in { 0, 640 * Len(packets) } }
         \cup { [ok |-> FALSE, pcm |-> 0, err |-> "av error"] }

\* ------------------------------------------- packets_to_ogg_opus_bytes
\* A packet is [kind, len, rate]: the identification header (which holds
\* the input sample rate), the comment header, or an audio packet.
OpusHead(rate) == [kind |-> "OpusHead", len |-> OpusHeadLen, rate |-> rate]
OpusTags == [kind |-> "OpusTags", len |-> OpusTagsLen, rate |-> 0]
AudioPacket(n) == [kind |-> "audio", len |-> n, rate |-> 0]

NoPage ==
  [header_type |-> 0, granule_position |-> 0, serial |-> << 0, 0 >>,
   sequence |-> 0, segments |-> 0, packet |-> AudioPacket(0)]

\* _build_ogg_page: the page, or the ValueError.
BuildOggPage(header_type, granule_position, serial, sequence, packet) ==
  IF granule_position < 0
    THEN [ok |-> FALSE, err |-> "granule_position must be >= 0",
          page |-> NoPage]
  ELSE IF ~PageFits(packet.len)
    THEN [ok |-> FALSE,
          err |-> "packet too large for single Ogg page in this MVP writer",
          page |-> NoPage]
  ELSE [ok |-> TRUE, err |-> "",
        page |-> [header_type |-> header_type % 256,
                  granule_position |-> granule_position,
                  serial |-> serial,
                  sequence |-> sequence,
                  segments |-> SegmentTableLen(packet.len),
                  packet |-> packet]]

FrameSamples(rate) == rate \div FramesPerSecond

GranuleStep(rate) == FrameSamples(rate) * (GranuleRate \div rate)

\* The three checks on input_sample_rate, in order.
RateError(rate) ==
  IF rate \notin SupportedOpusRates THEN "Unsupported sample rate"
  ELSE IF FrameSamples(rate) * FramesPerSecond # rate
    THEN "unsupported input_sample_rate for 20ms frames"
  ELSE IF GranuleRate % rate # 0
    THEN "unsupported input_sample_rate for Ogg/Opus granules"
  ELSE ""

Max(a, b) == IF a >= b THEN a ELSE b

\* The inputs the muxer is called with: a rate, a packet list (by lengths)
\* and the serial that secrets.randbits(32) returns.
MuxRates == SupportedOpusRates \cup { 44100 }
MuxPacketLens == { 0, 80, 255, 65025 }
MuxSerials == { << 0, 0 >>, << 65535, 65535 >> }

SeqsUpTo(S, n) == UNION { [1..k -> S] : k \in 0..n }

\* ------------------------------------------------ _ogg_crc, _build_ogg_page
\* Bitwise exclusive or of two numbers below 2^16.
RECURSIVE Xor16(_, _)
Xor16(a, b) ==
  IF a = 0 THEN b
  ELSE IF b = 0 THEN a
  ELSE 2 * Xor16(a \div 2, b \div 2) + ((a + b) % 2)

Xor32(x, y) == << Xor16(x[1], y[1]), Xor16(x[2], y[2]) >>

\* (x << 1) & 0xFFFFFFFF and (x << 8) & 0xFFFFFFFF
Shl1(x) == << (x[1] * 2 + x[2] \div 32768) % 65536, (x[2] * 2) % 65536 >>

Shl8(x) == << (x[1] * 256 + x[2] \div 256) % 65536, (x[2] * 256) % 65536 >>

\* x & 0x80000000 is set; (x >> 24) & 0xFF
TopBit(x) == x[1] >= 32768

TopByte(x) == x[1] \div 256

\* (Reflected: the polynomial of the zlib CRC, 0xEDB88320.)
OggCrcPolyReflected == << 60856, 33568 >>

\* _OGG_CRC_POLY = 0x04C11DB7
OggCrcPoly == << 1217, 7607 >>

\* A 32-bit value, as two limbs.
IsWord32(x) == x[1] \in 0..65535 /\ x[2] \in 0..65535

\* The inner loop of _make_ogg_crc_table: k more turns on r.
RECURSIVE CrcTableTurns(_, _)
CrcTableTurns(r, k) ==
  IF k = 0 THEN r
  ELSE IF TopBit(r)
    THEN CrcTableTurns(Xor32(Shl1(r), OggCrcPoly), k - 1)
    ELSE CrcTableTurns(Shl1(r), k - 1)

\* _OGG_CRC_TABLE[i]: r = i << 24, then eight turns.
OggCrcTable(i) == CrcTableTurns(<< i * 256, 0 >>, 8)

\* _ogg_crc: the loop over the bytes from position i on; every value it
\* holds is within 32 bits.
RECURSIVE OggCrcFrom(_, _, _)
OggCrcFrom(page, i, crc) ==
  IF i > Len(page) \/ ~IsWord32(crc) THEN crc
  ELSE OggCrcFrom(page, i + 1,
                  Xor32(Shl8(crc),
                        OggCrcTable(Xor16(TopByte(crc), page[i]))))

OggCrc(page) == OggCrcFrom(page, 1, << 0, 0 >>)

\* struct.pack, little endian: "<I" of a limb pair, "<I" and "<H" of a
\* small non-negative int, "<Q" of a non-negative int below 2^31.
Le32(x) == << x[2] % 256, x[2] \div 256, x[1] % 256, x[1] \div 256 >>

Le16Int(n) == << n % 256, (n \div 256) % 256 >>

Le32Int(n) ==
  << n % 256, (n \div 256) % 256, (n \div 65536) % 256, n \div 16777216 >>

Le64Int(n) == Le32Int(n) \o << 0, 0, 0, 0 >>

\* _opus_head and _opus_tags, as bytes.
OpusHeadBytes(rate) ==
  << 79, 112, 117, 115, 72, 101, 97, 100 >> \o << 1, 1 >>
    \o Le16Int(PreSkip) \o Le32Int(rate) \o Le16Int(0) \o << 0 >>

OpusTagsBytes ==
  << 79, 112, 117, 115, 84, 97, 103, 115 >> \o Le32Int(9)
    \o << 71, 104, 111, 115, 116, 84, 121, 112, 101 >> \o Le32Int(0)

\* _segment_table_for_packet: the lacing values.
SegmentTable(packet_len) ==
  [k \in 1..(packet_len \div 255) |-> 255] \o << packet_len % 255 >>

\* _build_ogg_page up to `page = header + packet`: the CRC field is zero.
OggPageUnstamped(header_type, granule_position, serial, sequence, packet) ==
  << 79, 103, 103, 83 >> \o << 0, header_type % 256 >>
    \o Le64Int(granule_position) \o Le32(serial) \o Le32Int(sequence)
    \o Le32Int(0)
    \o << Len(SegmentTable(Len(packet))) >> \o SegmentTable(Len(packet))
    \o packet

\* (Header only: the CRC taken over the 27 fixed bytes of the header.)
StampCrcHeaderOnly(page) ==
  SubSeq(page, 1, 22) \o Le32(OggCrc(SubSeq(page, 1, 27)))
    \o SubSeq(page, 27, Len(page))

\* page[:22] + struct.pack("<I", crc) + page[26:]
StampCrc(page) ==
  SubSeq(page, 1, 22) \o Le32(OggCrc(page)) \o SubSeq(page, 27, Len(page))

\* The pages that are built byte by byte.
CrcHeaderTypes == { 0, 2, 4 }
CrcGranules == { 0, 648 }
CrcSequences == { 0, 2 }
CrcPackets ==
  SeqsUpTo({ 0, 255 }, MaxPacketBytes)
    \cup { OpusHeadBytes(16000), OpusTagsBytes }

\* ----------------------------------------------------------- the recognizer
Engines == { "stub", "sensevoice" }

\* asr_engine.transcribe(pcm, sample_rate): a text, or an exception.  The
\* SenseVoice engine runs the ONNX session on whatever PCM it is given, the
\* empty one included (the CTC front end frames empty PCM as one padded
\* frame, so x_len is never 0), and the text is what the model puts out.
TranscribeOutcomes(engine, n, sr) ==
  IF engine = "stub"
    THEN { [ok |-> TRUE, text |-> StubText(n, sr), err |-> ""] }
    ELSE { [ok |-> TRUE, text |-> t, err |-> ""] :
             t \in { EmptyText, SomeText } }
           \cup { [ok |-> FALSE, text |-> AsrErrorText,
                   err |-> "onnx inference failed"] }

\* ------------------------------------------------------------------- state
VARIABLES
  trace_id,        \* SessionState.trace_id: Optional string
  sample_rate,     \* SessionState.sample_rate: Optional int
  context,         \* SessionState.context
  use_cloud_api,   \* SessionState.use_cloud_api
  opus_packets,    \* SessionState.opus_packets
  packet_count,    \* SessionState.packet_count
  total_bytes,     \* SessionState.total_bytes
  stop_lock,       \* stop_lock.locked()
  asr_engine,      \* the module's asr_engine, set once at startup
  pc,              \* where the connection's task is
  handed,          \* the packet list the worker was given
  pcm,             \* handle_stop's local pcm, as a byte count
  stop_trace_id,   \* handle_stop's local trace_id (Optional)
  exc,             \* the exception that left websocket_endpoint's loop
  inbox,           \* frames sent by the client and not yet received
  connected,       \* the client has not closed the socket
  replies,         \* what was sent in answer to the frame being handled
  logged,          \* log markers written while that frame was handled
  cur,             \* the frame being handled (the last one received)
  sent,            \* history: frames the client has sent
  nFastText,       \* history: fast_text messages sent
  nAccepted,       \* history: stops that entered the pipeline
  inflight,        \* history: pipelines executing now
  sinceStart,      \* history: binary frames received since the last start
  finalizedSinceStart, \* history: a pipeline ended since the last start
  outcome,         \* history: how the pipeline of the current stop ended
  mux,             \* one call of packets_to_ogg_opus_bytes: input and locals
  call             \* one call of another function: input, locals, result

session ==
  << trace_id, sample_rate, context, use_cloud_api,
     opus_packets, packet_count, total_bytes >>

\* handle_stop's lock and locals.
locals == << stop_lock, handed, pcm, stop_trace_id >>

task == << locals, pc, exc >>

\* The counters of the history, which only a few actions move.
tallies ==
  << sent, nFastText, nAccepted, inflight, sinceStart, finalizedSinceStart >>

history == << tallies, outcome >>

\* The connection and its client.
conn ==
  << session, task, asr_engine, inbox, connected, replies, logged, cur,
     history >>

\* The function calls followed on their own.
pure == << mux, call >>

vars == << conn, pure >>

Pipeline == { "decode", "asr" }

\* websocket_endpoint is over: it returned ("closed") or an exception left
\* it ("crashed").
Ended == { "closed", "crashed" }

\* The lifecycle as the code can tell it: the only test it makes is
\* `state.sample_rate is None`.
Lifecycle ==
  IF pc \in Pipeline THEN "Finalizing"
  ELSE IF sample_rate = None THEN "Idle"
  ELSE "Capturing"

NoFrame ==
  [kind |-> "none", json |-> FALSE, type |-> "None",
   payload |-> NoPayload, pkt |-> 0, malformed |-> ""]

\* No call of the muxer is being followed.
MuxIdle ==
  [pc |-> "idle", rate |-> 0, packets |-> << >>, serial |-> << 0, 0 >>,
   out |-> << >>, granule |-> 0, seq |-> 0, i |-> 0, err |-> ""]

ConnInit ==
  /\ trace_id = None
  /\ sample_rate = None
  /\ context = {}
  /\ use_cloud_api = FALSE
  /\ opus_packets = << >>
  /\ packet_count = 0
  /\ total_bytes = 0
  /\ stop_lock = FALSE
  /\ asr_engine \in Engines
  /\ pc = "recv"
  /\ handed = << >>
  /\ pcm = 0
  /\ stop_trace_id = None
  /\ exc = ""
  /\ inbox = << >>
  /\ connected = TRUE
  /\ replies = << >>
  /\ logged = {}
  /\ cur = [frame |-> NoFrame, duringFinal |-> FALSE, afterFinal |-> FALSE,
            prePackets |-> 0]
  /\ sent = 0
  /\ nFastText = 0
  /\ nAccepted = 0
  /\ inflight = 0
  /\ sinceStart = << >>
  /\ finalizedSinceStart = FALSE
  /\ outcome = "none"

\* No other function call is being followed.
NoCall == [pc |-> "idle"]

Init == ConnInit /\ mux = MuxIdle /\ call = NoCall

\* ------------------------------------------------------------------ client
ClientSend ==
  /\ connected
  /\ pc \notin Ended
  /\ sent < MaxMsgs
  /\ Len(inbox) < MaxInbox
  /\ \E f \in ClientFrames :
       inbox' = Append(inbox, [frame |-> f, duringFinal |-> pc \in Pipeline])
  /\ sent' = sent + 1
  /\ UNCHANGED << session, task, asr_engine, connected, replies, logged, cur,
                  nFastText, nAccepted, inflight, sinceStart,
                  finalizedSinceStart, outcome >>

\* The client closes the socket: the server's next receive() will return
\* the disconnect message, after the frames that were sent before it.
ClientDisconnect ==
  /\ connected
  /\ pc \notin Ended
  /\ connected' = FALSE
  /\ inbox' = Append(inbox, [frame |-> DisconnectFrame,
                             duringFinal |-> pc \in Pipeline])
  /\ UNCHANGED << session, task, asr_engine, replies, logged, cur, history >>

\* ------------------------------------------------------- websocket_endpoint
\* `msg = await ws.receive()`: the task is at the top of its loop.  Every
\* handler, handle_stop included, is awaited inline, so no frame is received
\* while one is being handled.  (Concurrent: a frame is received while the
\* pipeline runs, as if handle_stop were its own task.)
AtReceiveConcurrent == pc \in { "recv" } \cup Pipeline

AtReceive == pc = "recv"

\* `async with stop_lock` can be entered.
LockFree == ~stop_lock

\* handle_stop may be entered: the loop is at its receive and the lock is
\* free.  (Unguarded: a stop is handled as soon as it is in the queue, as
\* if handle_stop ran as its own task and took no lock.)
StopMayEnterUnguarded == inbox # << >>

StopMayEnter == AtReceive /\ LockFree

\* Taking the next frame off the socket.
Receive(f) ==
  /\ inbox # << >>
  /\ Head(inbox).frame = f
  /\ inbox' = Tail(inbox)
  /\ cur' = [frame |-> f, duringFinal |-> Head(inbox).duringFinal,
             afterFinal |-> finalizedSinceStart,
             prePackets |-> packet_count]
  /\ outcome' = "none"

\* What ws.send_text does.  While the client is there the message goes out.
\* Once the client has closed the socket the outcome is the server
\* library's, which is not part of the repository: the message is dropped,
\* or send raises WebSocketDisconnect, or it raises another exception.  A
\* closed socket answers every send of one handler the same way.
SendOutcomes ==
  IF connected THEN { "sent" }
  ELSE { "dropped", "WebSocketDisconnect", "OSError" }

Raises(o) == o \notin { "sent", "dropped" }

\* The handlers around the loop: WebSocketDisconnect is logged and the
\* function returns; the RuntimeError of a receive() after the disconnect
\* message returns silently; anything else leaves the function.
Caught(e) == e \in { "WebSocketDisconnect", "RuntimeError: disconnect" }

LoopLog(e) ==
  IF e = "WebSocketDisconnect" THEN { "Client disconnected" } ELSE {}

\* Control after a handler: back to receive(), or out of the loop with e.
Continue(e, to) ==
  IF e = ""
    THEN pc' = to /\ exc' = exc
    ELSE pc' = (IF Caught(e) THEN "closed" ELSE "crashed") /\ exc' = e

\* A handler whose only effect is to send m.
Reply(m) ==
  \E o \in SendOutcomes :
    /\ replies' = IF o = "sent" THEN << m >> ELSE << >>
    /\ Continue(IF Raises(o) THEN o ELSE "", "recv")
    /\ logged' = LoopLog(o)

\* The same with the packet count kept.
ResetAudioKeepingCount ==
  /\ opus_packets' = << >>
  /\ packet_count' = packet_count
  /\ total_bytes' = 0

\* SessionState.reset_audio
ResetAudio ==
  /\ opus_packets' = << >>
  /\ packet_count' = 0
  /\ total_bytes' = 0

RecvInvalidJson ==
  /\ AtReceive
  /\ Receive(BadJsonFrame)
  /\ Reply(ErrorMsg("invalid json", "", trace_id))
  /\ UNCHANGED << session, locals, asr_engine, connected, tallies >>

\* (Resetting: a ping that also clears the buffer.)
RecvPingResetting ==
  /\ AtReceive
  /\ Receive(TextFrame("ping", NoPayload))
  /\ Reply(Pong)
  /\ ResetAudio
  /\ UNCHANGED << trace_id, sample_rate, context, use_cloud_api, locals,
                  asr_engine, connected, tallies >>

RecvPing ==
  /\ AtReceive
  /\ Receive(TextFrame("ping", NoPayload))
  /\ Reply(Pong)
  /\ UNCHANGED << session, locals, asr_engine, connected, tallies >>

RecvUnknown ==
  /\ AtReceive
  /\ \E t \in MsgTypes \ { "ping", "start", "stop" } :
       /\ Receive(TextFrame(t, NoPayload))
       /\ Reply(ErrorMsg("unknown type: ", t, trace_id))
  /\ UNCHANGED << session, locals, asr_engine, connected, tallies >>

\* The trace id a start leaves in the session.
StartTraceId(p, micros) ==
  IF p.trace_id # None /\ p.trace_id[1].isStr /\ Strip(p.trace_id[1].s) # << >>
    THEN Some(Strip(p.trace_id[1].s))
    ELSE Some(GenerateTraceId(micros))

StartSampleRate(p) ==
  IF p.sample_rate = None THEN Some(DefaultSampleRate) ELSE p.sample_rate

StartContext(p) == IF p.context = None THEN {} ELSE p.context[1]

StartUseCloudApi(p) ==
  IF p.use_cloud_api = None THEN FALSE ELSE p.use_cloud_api[1]

RecvStart ==
  /\ AtReceive
  /\ \E p \in StartPayloads, micros \in Clocks :
       /\ Receive(TextFrame("start", p))
       /\ trace_id' = StartTraceId(p, micros)
       /\ sample_rate' = StartSampleRate(p)
       /\ context' = StartContext(p)
       /\ use_cloud_api' = StartUseCloudApi(p)
  /\ ResetAudio
  /\ replies' = << >>
  /\ logged' = {}
  /\ sinceStart' = << >>
  /\ finalizedSinceStart' = FALSE
  /\ UNCHANGED << task, asr_engine, connected, sent, nFastText, nAccepted,
                  inflight >>

\* A text frame that is JSON but not of the shape the handler reads.  The
\* statement that meets the value raises, nothing in the loop catches the
\* exception, and what the handler had assigned before stays assigned.
MalformedRaises(f) ==
  CASE f.malformed = "payload" -> "AttributeError"
    [] f.malformed = "sample_rate" -> "ValueError"
    [] f.malformed = "context" -> "ValueError"

RecvMalformed ==
  /\ AtReceive
  /\ \E f \in MalformedFrames, micros \in Clocks :
       /\ Receive(f)
       /\ trace_id' = IF f.malformed = "payload" THEN trace_id
                      ELSE StartTraceId(f.payload, micros)
       /\ sample_rate' = IF f.malformed = "context"
                           THEN StartSampleRate(f.payload)
                           ELSE sample_rate
       /\ Continue(MalformedRaises(f), "recv")
  /\ replies' = << >>
  /\ logged' = {}
  /\ UNCHANGED << context, use_cloud_api, opus_packets, packet_count,
                  total_bytes, locals, asr_engine, connected, tallies >>

\* The disconnect message has neither "text" nor "bytes": the loop goes
\* round, and the next receive() raises the RuntimeError that line 306
\* recognises.
RecvDisconnect ==
  /\ AtReceive
  /\ Receive(DisconnectFrame)
  /\ Continue("RuntimeError: disconnect", "recv")
  /\ replies' = << >>
  /\ logged' = {}
  /\ UNCHANGED << session, locals, asr_engine, connected, tallies >>

RecvBinary ==
  /\ AtReceive
  /\ \E b \in Packets :
       /\ Receive(BinaryFrame(b))
       /\ opus_packets' = Append(opus_packets, b)
       /\ packet_count' = packet_count + 1
       /\ total_bytes' = total_bytes + b
       /\ sinceStart' = Append(sinceStart, b)
  /\ replies' = << >>
  /\ logged' = {}
  /\ UNCHANGED << trace_id, sample_rate, context, use_cloud_api, task,
                  asr_engine, connected, sent, nFastText, nAccepted,
                  inflight, finalizedSinceStart >>

\* -------------------------------------------------------------- handle_stop
\* stop with no sample rate: the error, reset_audio, return.  When the send
\* raises, reset_audio is not reached.
StopBeforeStart ==
  /\ StopMayEnter
  /\ Receive(TextFrame("stop", NoPayload))
  /\ sample_rate = None
  /\ Reply(ErrorMsg("stop before start", "", trace_id))
  /\ IF pc' = "recv" THEN ResetAudio
     ELSE UNCHANGED << opus_packets, packet_count, total_bytes >>
  /\ UNCHANGED << trace_id, sample_rate, context, use_cloud_api, locals,
                  asr_engine, connected, tallies >>

\* stop with a sample rate: the lock is taken and the packet list goes to
\* the worker thread (asyncio.to_thread).
StopAccepted ==
  /\ StopMayEnter
  /\ Receive(TextFrame("stop", NoPayload))
  /\ sample_rate # None
  /\ stop_lock' = TRUE
  /\ pc' = "decode"
  /\ handed' = opus_packets
  /\ stop_trace_id' = trace_id
  /\ replies' = << >>
  /\ logged' = {}
  /\ nAccepted' = nAccepted + 1
  /\ inflight' = inflight + 1
  /\ UNCHANGED << session, pcm, exc, asr_engine, connected, sent, nFastText,
                  sinceStart, finalizedSinceStart >>

\* Leaving handle_stop: `finally: state.reset_audio()`, the lock released,
\* the locals gone.
LeaveStop ==
  /\ ResetAudio
  /\ stop_lock' = FALSE
  /\ handed' = << >>
  /\ pcm' = 0
  /\ stop_trace_id' = None
  /\ inflight' = inflight - 1
  /\ finalizedSinceStart' = TRUE

\* The worker returns PCM, or raises into the outer `except Exception`,
\* which logs `Audio decode failed` and sends the error.
\* (GHOSTTYPE_DUMP_WAV is taken to be unset: no WAV is written.)
DecodeDone ==
  /\ pc = "decode"
  /\ \E r \in DecodeOutcomes(handed, sample_rate[1]) :
       IF r.ok
         THEN /\ pcm' = r.pcm
              /\ pc' = "asr"
              /\ UNCHANGED << session, stop_lock, handed, stop_trace_id, exc,
                              replies, logged, inflight, finalizedSinceStart,
                              outcome >>
         ELSE \E o \in SendOutcomes :
              /\ replies' = IF o = "sent"
                   THEN Append(replies,
                          ErrorMsg("audio decode failed: ", r.err, trace_id))
                   ELSE replies
              /\ logged' = logged \cup { "Audio decode failed" } \cup LoopLog(o)
              /\ outcome' = "decode_failed"
              /\ LeaveStop
              /\ Continue(IF Raises(o) THEN o ELSE "", "recv")
              /\ UNCHANGED << trace_id, sample_rate, context, use_cloud_api >>
  /\ UNCHANGED << asr_engine, inbox, connected, cur, sent, nFastText,
                  nAccepted, sinceStart >>

\* t_asr1 is assigned on the line after `await asr_engine.transcribe(...)`:
\* it is bound only when transcribe returned.
TAsr1Bound(ok) == ok

\* The inference, then the rest of handle_stop.  When transcribe raises the
\* inner handler sends `asr failed` and sets the placeholder text; the next
\* statement reads t_asr1, and an unbound t_asr1 raises UnboundLocalError
\* into the outer handler, which logs `Audio decode failed` and sends
\* `audio decode failed`.  `ASR inference started` is logged before the
\* call of transcribe, `ASR inference completed` after the read of t_asr1.  A send that raises lands in the outer handler
\* too, and the outer handler's own send then raises out of handle_stop.
AsrDone ==
  /\ pc = "asr"
  /\ \E r \in TranscribeOutcomes(asr_engine, pcm, OutputSampleRate),
        o \in SendOutcomes :
       LET inner == IF r.ok THEN replies
                    ELSE Append(replies,
                           ErrorMsg("asr failed: ", r.err, trace_id))
           outer == ~TAsr1Bound(r.ok) \/ Raises(o)
       IN /\ outcome' = IF r.ok THEN "ok" ELSE "asr_failed"
          /\ replies' =
               IF o # "sent" THEN replies
               ELSE IF TAsr1Bound(r.ok)
                 THEN Append(inner, FastText(trace_id, r.text))
                 ELSE Append(inner,
                        ErrorMsg("audio decode failed: ",
                                 "cannot access local variable 't_asr1'",
                                 trace_id))
          /\ nFastText' = IF o = "sent" /\ TAsr1Bound(r.ok)
                            THEN nFastText + 1 ELSE nFastText
          /\ logged' = logged \cup { "ASR inference started" }
                         \cup (IF TAsr1Bound(r.ok)
                                 THEN { "ASR inference completed" } ELSE {})
                         \cup (IF outer THEN { "Audio decode failed" } ELSE {})
                         \cup LoopLog(o)
          /\ Continue(IF Raises(o) THEN o ELSE "", "recv")
  /\ LeaveStop
  /\ UNCHANGED << trace_id, sample_rate, context, use_cloud_api,
                  asr_engine, inbox, connected, cur, sent, nAccepted,
                  sinceStart >>

Next ==
  \/ ClientSend /\ UNCHANGED pure
  \/ ClientDisconnect /\ UNCHANGED pure
  \/ RecvInvalidJson /\ UNCHANGED pure
  \/ RecvPing /\ UNCHANGED pure
  \/ RecvUnknown /\ UNCHANGED pure
  \/ RecvStart /\ UNCHANGED pure
  \/ RecvMalformed /\ UNCHANGED pure
  \/ RecvDisconnect /\ UNCHANGED pure
  \/ RecvBinary /\ UNCHANGED pure
  \/ StopBeforeStart /\ UNCHANGED pure
  \/ StopAccepted /\ UNCHANGED pure
  \/ DecodeDone /\ UNCHANGED pure
  \/ AsrDone /\ UNCHANGED pure

Spec == Init /\ [][Next]_vars

\* ----------------------------------- packets_to_ogg_opus_bytes, step by step
MuxInit ==
  /\ ConnInit
  /\ asr_engine = "stub"
  /\ call = NoCall
  /\ \E rate \in MuxRates, lens \in SeqsUpTo(MuxPacketLens, MaxMuxPackets),
        serial \in MuxSerials :
       mux = [pc |-> "call", rate |-> rate,
              packets |-> [k \in 1..Len(lens) |-> AudioPacket(lens[k])],
              serial |-> serial, out |-> << >>, granule |-> 0, seq |-> 0,
              i |-> 0, err |-> ""]

\* Lines 113-128: the checks on the rate.
MuxCheck ==
  /\ mux.pc = "call"
  /\ mux' = IF RateError(mux.rate) # ""
              THEN [mux EXCEPT !.pc = "raised", !.err = RateError(mux.rate)]
              ELSE [mux EXCEPT !.pc = "headers"]
  /\ UNCHANGED << conn, call >>

\* Lines 131-147: the two header pages, then granule = 0 and seq = 2.
MuxHeaders ==
  /\ mux.pc = "headers"
  /\ LET head == BuildOggPage(2, 0, mux.serial, 0, OpusHead(mux.rate))
         tags == BuildOggPage(0, 0, mux.serial, 1, OpusTags)
     IN mux' = IF ~head.ok
                 THEN [mux EXCEPT !.pc = "raised", !.err = head.err]
               ELSE IF ~tags.ok
                 THEN [mux EXCEPT !.pc = "raised", !.err = tags.err]
               ELSE [mux EXCEPT !.pc = "loop",
                                !.out = << head.page, tags.page >>,
                                !.granule = 0, !.seq = 2]
  /\ UNCHANGED << conn, call >>

\* Lines 148-159: one turn of the loop over the packets.
MuxPage ==
  /\ mux.pc = "loop"
  /\ mux.i < Len(mux.packets)
  /\ LET is_last == mux.i = Len(mux.packets) - 1
         granule == mux.granule + GranuleStep(mux.rate)
         built == BuildOggPage(IF is_last THEN 4 ELSE 0,
                               Max(0, granule - PreSkip), mux.serial,
                               mux.seq, mux.packets[mux.i + 1])
     IN mux' = IF ~built.ok
                 THEN [mux EXCEPT !.pc = "raised", !.err = built.err,
                                  !.granule = granule]
                 ELSE [mux EXCEPT !.out = Append(mux.out, built.page),
                                  !.granule = granule,
                                  !.seq = mux.seq + 1,
                                  !.i = mux.i + 1]
  /\ UNCHANGED << conn, call >>

\* Line 161.
MuxReturn ==
  /\ mux.pc = "loop"
  /\ mux.i = Len(mux.packets)
  /\ mux' = [mux EXCEPT !.pc = "returned"]
  /\ UNCHANGED << conn, call >>

MuxNext ==
  \/ MuxCheck
  \/ MuxHeaders
  \/ MuxPage
  \/ MuxReturn

MuxSpec == MuxInit /\ [][MuxNext]_vars


\* ----------------------------------------------- _build_ogg_page, on bytes
CrcInit ==
  /\ ConnInit
  /\ asr_engine = "stub"
  /\ mux = MuxIdle
  /\ \E h \in CrcHeaderTypes, g \in CrcGranules, serial \in MuxSerials,
        q \in CrcSequences, p \in CrcPackets :
       call = [pc |-> "build", header_type |-> h, granule_position |-> g,
               serial |-> serial, sequence |-> q, packet |-> p,
               page |-> << >>]

\* Lines 91-107: the checks, then the page with a zero CRC field.
CrcBuild ==
  /\ call.pc = "build"
  /\ call' =
       IF call.granule_position < 0 \/ ~PageFits(Len(call.packet))
         THEN [call EXCEPT !.pc = "raised"]
         ELSE [call EXCEPT !.pc = "built",
                 !.page = OggPageUnstamped(call.header_type,
                            call.granule_position, call.serial,
                            call.sequence, call.packet)]
  /\ UNCHANGED << conn, mux >>

\* Lines 108-109: the CRC of the page is written into bytes 22..25.
CrcStamp ==
  /\ call.pc = "built"
  /\ call' = [call EXCEPT !.pc = "returned", !.page = StampCrc(call.page)]
  /\ UNCHANGED << conn, mux >>

CrcNext ==
  \/ CrcBuild
  \/ CrcStamp

CrcSpec == CrcInit /\ [][CrcNext]_vars


\* ------------------------------------------- _decode_token_ids, on its own
\* U+2581, the word-boundary mark of the SentencePiece vocabulary.
Metaspace == "_"

SpaceTag == << "<", "s", "p", "a", "c", "e", ">" >>

\* Line 462: the tokens that are never emitted.
SpecialTokens ==
  { << "<", "b", "l", "a", "n", "k", ">" >>,
    << "<", "p", "a", "d", ">" >>,
    << "<", "s", ">" >>,
    << "<", "/", "s", ">" >>,
    << "<", "e", "o", "s", ">" >>,
    << "<", "b", "o", "s", ">" >> }

\* Line 449.
BlankId == 0

IsBlankNever(tid) == FALSE

\* Line 454: tid == blank_id
IsBlank(tid) == tid = BlankId

NeverCollapses(prev, tid) == FALSE

\* Line 457: prev is not None and tid == prev.
CollapsesRepeat(prev, tid) == prev # None /\ tid = prev[1]

\* Lines 453-464: the loop from position i on; out_tokens is the list built.
RECURSIVE DecodeLoop(_, _, _, _, _)
DecodeLoop(token_ids, token_list, i, prev, out_tokens) ==
  IF i > Len(token_ids) THEN out_tokens
  ELSE LET tid == token_ids[i] IN
    IF IsBlank(tid)
      THEN DecodeLoop(token_ids, token_list, i + 1, Some(tid), out_tokens)
    ELSE IF CollapsesRepeat(prev, tid)
      THEN DecodeLoop(token_ids, token_list, i + 1, prev, out_tokens)
    ELSE IF tid < 0 \/ tid >= Len(token_list)
      THEN DecodeLoop(token_ids, token_list, i + 1, Some(tid), out_tokens)
    ELSE IF token_list[tid + 1] \in SpecialTokens
      THEN DecodeLoop(token_ids, token_list, i + 1, Some(tid), out_tokens)
    ELSE DecodeLoop(token_ids, token_list, i + 1, Some(tid),
                    Append(out_tokens, token_list[tid + 1]))

\* "".join(out_tokens)
RECURSIVE JoinTokens(_)
JoinTokens(tokens) ==
  IF tokens = << >> THEN << >>
  ELSE Head(tokens) \o JoinTokens(Tail(tokens))

\* str.replace(pat, rep): leftmost occurrences, not overlapping.
RECURSIVE ReplaceAll(_, _, _)
ReplaceAll(s, pat, rep) ==
  IF Len(s) < Len(pat) THEN s
  ELSE IF SubSeq(s, 1, Len(pat)) = pat
    THEN rep \o ReplaceAll(SubSeq(s, Len(pat) + 1, Len(s)), pat, rep)
    ELSE << Head(s) >> \o ReplaceAll(Tail(s), pat, rep)

\* str.split(): the maximal runs of non-blank characters from position i on;
\* word is the run being read.
RECURSIVE SplitFrom(_, _, _)
SplitFrom(s, i, word) ==
  IF i > Len(s)
    THEN IF word = << >> THEN << >> ELSE << word >>
  ELSE IF s[i] = " "
    THEN IF word = << >> THEN SplitFrom(s, i + 1, << >>)
         ELSE << word >> \o SplitFrom(s, i + 1, << >>)
  ELSE SplitFrom(s, i + 1, Append(word, s[i]))

\* " ".join(words)
RECURSIVE JoinWords(_)
JoinWords(words) ==
  IF words = << >> THEN << >>
  ELSE IF Len(words) = 1 THEN Head(words)
  ELSE Head(words) \o << " " >> \o JoinWords(Tail(words))

\* Lines 448-469.
DecodeTokenIds(token_ids, token_list) ==
  LET out_tokens == DecodeLoop(token_ids, token_list, 1, None, << >>)
      text == ReplaceAll(ReplaceAll(JoinTokens(out_tokens),
                                    << Metaspace >>, << " " >>),
                         SpaceTag, << " " >>)
  IN JoinWords(SplitFrom(text, 1, << >>))

MaxIds == 3

\* A vocabulary with <blank> at id 0, and one whose id 0 holds a word.
CtcTokenLists ==
  { << << "<", "b", "l", "a", "n", "k", ">" >>, << "a" >>, << Metaspace >>,
       SpaceTag, << "<", "/", "s", ">" >> >>,
    << << "a" >>, << "b" >>, << "a" >> >> }

\* Token ids: the blank, ids of both vocabularies, a negative id and an id
\* past the end of both.
CtcIds == -1 .. 5

\* s with x inserted so that it stands at position p.
InsertAt(s, p, x) == SubSeq(s, 1, p - 1) \o << x >> \o SubSeq(s, p, Len(s))

CtcInit ==
  /\ ConnInit
  /\ asr_engine = "stub"
  /\ mux = MuxIdle
  /\ \E ids \in SeqsUpTo(CtcIds, MaxIds), tl \in CtcTokenLists :
       call = [pc |-> "ids", token_ids |-> ids, token_list |-> tl,
               text |-> << >>, edit |-> "none", at |-> 0,
               before |-> << >>]

\* _decode_token_ids(token_ids, token_list)
CtcDecode ==
  /\ call.pc = "ids"
  /\ call' = [call EXCEPT !.pc = "decoded",
                !.text = DecodeTokenIds(call.token_ids, call.token_list)]
  /\ UNCHANGED << conn, mux >>

\* The caller's next input: the ids decoded, with one more blank at p.
CtcInsertBlank ==
  /\ call.pc = "decoded"
  /\ call.edit = "none"
  /\ \E p \in 1 .. Len(call.token_ids) + 1 :
       call' = [call EXCEPT !.pc = "ids", !.edit = "blank", !.at = p,
                  !.before = call.text,
                  !.token_ids = InsertAt(call.token_ids, p, 0)]
  /\ UNCHANGED << conn, mux >>

\* The caller's next input: the ids decoded, with the non-blank id at p
\* repeated next to itself.
CtcDuplicate ==
  /\ call.pc = "decoded"
  /\ call.edit = "none"
  /\ \E p \in 1 .. Len(call.token_ids) :
       /\ call.token_ids[p] # 0
       /\ call' = [call EXCEPT !.pc = "ids", !.edit = "dup", !.at = p + 1,
                     !.before = call.text,
                     !.token_ids = InsertAt(call.token_ids, p + 1,
                                            call.token_ids[p])]
  /\ UNCHANGED << conn, mux >>

CtcNext ==
  \/ CtcDecode
  \/ CtcInsertBlank
  \/ CtcDuplicate

CtcSpec == CtcInit /\ [][CtcNext]_vars


\* ------------------------------------------- _parse_token_file, on its own
\* str.splitlines() from position i on; line is the line being read.
RECURSIVE SplitLinesFrom(_, _, _)
SplitLinesFrom(s, i, line) ==
  IF i > Len(s)
    THEN IF line = << >> THEN << >> ELSE << line >>
  ELSE IF s[i] = "\n"
    THEN << line >> \o SplitLinesFrom(s, i + 1, << >>)
  ELSE SplitLinesFrom(s, i + 1, Append(line, s[i]))

\* "\n".join(lines)
RECURSIVE JoinLines(_)
JoinLines(lines) ==
  IF lines = << >> THEN << >>
  ELSE IF Len(lines) = 1 THEN Head(lines)
  ELSE Head(lines) \o << "\n" >> \o JoinLines(Tail(lines))

Digits == << "0", "1", "2", "3", "4", "5", "6", "7", "8", "9" >>

DigitOf(c) == CHOOSE d \in 0..9 : Digits[d + 1] = c

IsDigits(s) ==
  s # << >> /\ \A i \in 1..Len(s) : \E d \in 0..9 : Digits[d + 1] = s[i]

RECURSIVE IntOfDigits(_)
IntOfDigits(s) ==
  IF s = << >> THEN 0
  ELSE IntOfDigits(SubSeq(s, 1, Len(s) - 1)) * 10 + DigitOf(s[Len(s)])

\* int(idx) of a string without blanks: the number, or None for ValueError.
ParseInt(s) ==
  IF s # << >> /\ Head(s) \in { "+", "-" }
    THEN IF IsDigits(Tail(s))
           THEN Some(IF Head(s) = "-" THEN 0 - IntOfDigits(Tail(s))
                     ELSE IntOfDigits(Tail(s)))
           ELSE None
  ELSE IF IsDigits(s) THEN Some(IntOfDigits(s)) ELSE None

\* str(i) for i >= 0
RECURSIVE ToDecimal(_)
ToDecimal(i) ==
  IF i < 10 THEN << Digits[i + 1] >>
  ELSE ToDecimal(i \div 10) \o << Digits[(i % 10) + 1] >>

\* A split at the first run of blanks instead of the last.
SplitOnce(line) ==
  LET ws == { p \in 1..Len(line) : line[p] \in Whitespace } IN
  IF ws = {} THEN << line >>
  ELSE LET p == CHOOSE q \in ws : \A o \in ws : q <= o
           right == LStrip(SubSeq(line, p + 1, Len(line)))
       IN IF right = << >> THEN << SubSeq(line, 1, p - 1) >>
          ELSE << SubSeq(line, 1, p - 1), right >>

\* Line 312: line.rsplit(maxsplit=1) of a stripped, non-empty line.
RSplitOnce(line) ==
  LET ws == { p \in 1..Len(line) : line[p] \in Whitespace } IN
  IF ws = {} THEN << line >>
  ELSE LET p == CHOOSE q \in ws : \A o \in ws : q >= o
           left == RStrip(SubSeq(line, 1, p - 1))
       IN IF left = << >> THEN << SubSeq(line, p + 1, Len(line)) >>
          ELSE << left, SubSeq(line, p + 1, Len(line)) >>

\* Lines 310-321: the pairs (id, token) from line i on; the empty list when a
\* line is not a pair.
RECURSIVE PairsFrom(_, _, _)
PairsFrom(lines, i, pairs) ==
  IF i > Len(lines) THEN pairs
  ELSE LET parts == RSplitOnce(lines[i]) IN
    IF Len(parts) # 2 THEN << >>
    ELSE LET idx == ParseInt(parts[2]) IN
      IF idx = None THEN << >>
      ELSE PairsFrom(lines, i + 1, Append(pairs, << idx[1], parts[1] >>))

\* Lines 305-331.
ParseTokenFile(content) ==
  LET all == SplitLinesFrom(content, 1, << >>)
      kept == SelectSeq(all, LAMBDA line : Strip(line) # << >>)
      lines == [k \in 1..Len(kept) |-> Strip(kept[k])]
  IN IF lines = << >> THEN None
     ELSE LET pairs == PairsFrom(lines, 1, << >>) IN
       IF pairs = << >> THEN Some(lines)
       ELSE LET max_id == CHOOSE m \in { pairs[j][1] : j \in 1..Len(pairs) } :
                            \A j \in 1..Len(pairs) : pairs[j][1] <= m
                out == [k \in 1 .. max_id + 1 |->
                          LET js == { j \in 1..Len(pairs) :
                                        pairs[j][1] = k - 1 }
                          IN IF js = {} THEN << >>
                             ELSE pairs[CHOOSE j \in js :
                                          \A o \in js : j >= o][2]]
            IN Some(out)

MaxVocab == 2

\* Log lines the supervisor handles in one run.
MaxLines == 3

\* Tokens: plain, with an inner blank, with a blank at either end, a blank
\* alone, a number, with a line break, and the empty string of an id that
\* is not specified.
TokTokens ==
  { << >>, << "a" >>, << "7" >>, << "a", " ", "7" >>, << "a", " " >>,
    << " ", "a" >>, << " " >>, << "a", "\n", "b" >> }

\* The file of a vocabulary: one line `<tok> <i>` for each specified id i.
TokenFile(vocabulary) ==
  LET ids == SelectSeq([k \in 1..Len(vocabulary) |-> k - 1],
                       LAMBDA i : vocabulary[i + 1] # << >>)
  IN JoinLines([k \in 1..Len(ids) |->
                  vocabulary[ids[k] + 1] \o << " " >> \o ToDecimal(ids[k])])

TokInit ==
  /\ ConnInit
  /\ asr_engine = "stub"
  /\ mux = MuxIdle
  /\ \E v \in SeqsUpTo(TokTokens, MaxVocab) :
       call = [pc |-> "vocabulary", vocabulary |-> v, content |-> << >>,
               tokens |-> None]

\* Line 273: the content read from the token file.
TokRead ==
  /\ call.pc = "vocabulary"
  /\ call' = [call EXCEPT !.pc = "content",
                !.content = TokenFile(call.vocabulary)]
  /\ UNCHANGED << conn, mux >>

\* Line 276: tokens = self._parse_token_file(content)
TokParse ==
  /\ call.pc = "content"
  /\ call' = [call EXCEPT !.pc = "parsed",
                !.tokens = ParseTokenFile(call.content)]
  /\ UNCHANGED << conn, mux >>

TokNext ==
  \/ TokRead
  \/ TokParse

TokSpec == TokInit /\ [][TokNext]_vars


\* ------------------------------- sensevoice_ctc_features, by array shapes
\* SenseVoiceConfig.sample_rate
EngineSampleRate == 16000

\* log_mel_fbank: frame_length_ms and frame_shift_ms
FrameLengthMs == 25
FrameShiftMs == 10

\* _frame_waveform: the number of frames of a waveform of `size` samples;
\* a waveform shorter than one frame is padded to one frame first.
NumFrames(size, frame_length, frame_shift) ==
  LET padded == IF size < frame_length THEN frame_length ELSE size
  IN 1 + (padded - frame_length) \div frame_shift

\* log_mel_fbank: the rows of the [T, n_mels] matrix.
FbankRows(samples, rate) ==
  NumFrames(samples, (rate * FrameLengthMs) \div 1000,
            (rate * FrameShiftMs) \div 1000)

\* apply_lfr: the rows of the [T', n_mels * lfr_m] matrix: one row for
\* each idx = 0, lfr_n, 2 * lfr_n, ... below t.
LfrRows(t, lfr_n) ==
  IF t = 0 THEN 0 ELSE (t + lfr_n - 1) \div lfr_n

\* Sample counts of the PCM: none, less than a frame, one frame, more.
FeatSamples == { 0, 1, 399, 400, 559, 560, 1360, 16000 }

FeatRates == { 8000, 16000 }

\* (lfr_m, lfr_n) of the model profile.
FeatLfr == { << 7, 6 >>, << 1, 1 >>, << 5, 2 >> }

FeatInit ==
  /\ ConnInit
  /\ asr_engine = "stub"
  /\ mux = MuxIdle
  /\ \E n \in FeatSamples, sr \in FeatRates, l \in FeatLfr :
       call = [pc |-> "pcm", samples |-> n, sample_rate |-> sr,
               lfr_m |-> l[1], lfr_n |-> l[2], t |-> 0, x_len |-> 0,
               ran |-> FALSE, text |-> None]

\* asr.py 337-338: another sample rate than the engine's is answered with a
\* message.
FeatRate ==
  /\ call.pc = "pcm"
  /\ call' = IF call.sample_rate # EngineSampleRate
               THEN [call EXCEPT !.pc = "returned", !.text = Some(SomeText)]
               ELSE [call EXCEPT !.pc = "fbank"]
  /\ UNCHANGED << conn, mux >>

\* fbank.py 155-157: log_mel_fbank
FeatFbank ==
  /\ call.pc = "fbank"
  /\ call' = [call EXCEPT !.pc = "lfr",
                !.t = FbankRows(call.samples, call.sample_rate)]
  /\ UNCHANGED << conn, mux >>

\* fbank.py 158-160: apply_lfr, apply_cmvn, and the row count returned.
FeatLfrCmvn ==
  /\ call.pc = "lfr"
  /\ call' = [call EXCEPT !.pc = "features",
                !.x_len = LfrRows(call.t, call.lfr_n)]
  /\ UNCHANGED << conn, mux >>

\* asr.py 352-367: no row, no inference; otherwise session.run and
\* _decode_outputs.
FeatInfer ==
  /\ call.pc = "features"
  /\ \E text \in { EmptyText, SomeText } :
       call' = IF call.x_len = 0
                 THEN [call EXCEPT !.pc = "returned",
                         !.text = Some(EmptyText)]
                 ELSE [call EXCEPT !.pc = "returned", !.ran = TRUE,
                         !.text = Some(text)]
  /\ UNCHANGED << conn, mux >>

FeatNext ==
  \/ FeatRate
  \/ FeatFbank
  \/ FeatLfrCmvn
  \/ FeatInfer

FeatSpec == FeatInit /\ [][FeatNext]_vars


\* --------------------------------- _init_sense_voice_ctc_inputs, on its own
\* Lines 159-160: the LFR window and shift of a model without metadata.
DefaultLfrM == 7
DefaultLfrN == 6

\* int(meta.get(key) or default): the number, or None for ValueError.
MetaInt(value, default) ==
  IF value = None \/ value[1] = << >> THEN Some(default)
  ELSE ParseInt(Strip(value[1]))

\* a % m == 0 in Python, for m # 0 of either sign.
Divides(m, a) == a % (IF m < 0 THEN 0 - m ELSE m) = 0

\* a // m in Python for a >= 0 and m # 0: the floor of the quotient.
FloorDiv(a, m) ==
  IF m > 0 THEN a \div m ELSE 0 - ((a + (0 - m) - 1) \div (0 - m))

\* value.split(","), from position i on; part is the part being read.
RECURSIVE SplitCommaFrom(_, _, _)
SplitCommaFrom(s, i, part) ==
  IF i > Len(s) THEN << part >>
  ELSE IF s[i] = ","
    THEN << part >> \o SplitCommaFrom(s, i + 1, << >>)
  ELSE SplitCommaFrom(s, i + 1, Append(part, s[i]))

\* float(p) does not raise: blanks around an optional sign, then digits with
\* at most one point.
FloatOk(p) ==
  LET s == Strip(p)
      body == IF s # << >> /\ Head(s) \in { "+", "-" } THEN Tail(s) ELSE s
      points == { i \in 1..Len(body) : body[i] = "." }
      digits == SelectSeq(body, LAMBDA c : c # ".")
  IN Cardinality(points) <= 1 /\ IsDigits(digits)

\* _parse_csv_vector without the test of the dimension.
ParseCsvVectorUnchecked(value, expected_dim) ==
  IF value = None \/ value[1] = << >> THEN None
  ELSE LET parts == SelectSeq(SplitCommaFrom(value[1], 1, << >>),
                              LAMBDA p : Strip(p) # << >>)
       IN IF \E k \in 1..Len(parts) : ~FloatOk(parts[k]) THEN None
          ELSE Some(parts)

\* Lines 176-185: the vector, or None when RuntimeError or ValueError is
\* raised.
ParseCsvVector(value, expected_dim) ==
  IF value = None \/ value[1] = << >> THEN None
  ELSE LET parts == SelectSeq(SplitCommaFrom(value[1], 1, << >>),
                              LAMBDA p : Strip(p) # << >>)
       IN IF Len(parts) # expected_dim THEN None
          ELSE IF \E k \in 1..Len(parts) : ~FloatOk(parts[k]) THEN None
          ELSE Some(parts)

\* k numbers separated by commas.
RECURSIVE CsvOnes(_)
CsvOnes(k) ==
  IF k = 1 THEN << "1" >> ELSE CsvOnes(k - 1) \o << ",", "1" >>

\* x.shape[-1]: a number, or None for a symbolic dimension.
ProfShapes == { None, Some(0), Some(2), Some(4), Some(7) }

\* Metadata values of lfr_window_size: absent, empty, numbers, not a number.
ProfWindows ==
  { None, Some(<< >>), Some(<< "0" >>), Some(<< "1" >>), Some(<< " ", "2" >>),
    Some(<< "3" >>), Some(<< "-", "2" >>), Some(<< "x" >>) }

ProfShifts == { None, Some(<< "1" >>), Some(<< "x" >>) }

\* Metadata values of neg_mean and inv_stddev.
ProfVectors ==
  { None, Some(<< >>), Some(<< "," >>),
    Some(CsvOnes(2)), Some(CsvOnes(4)), Some(CsvOnes(7)),
    Some(CsvOnes(3) \o << "," >>),
    Some(<< "1", ",", ",", "1", ",", " ", ",", "1", ",", "1" >>),
    Some(<< "0", ".", "5", ",", " ", "-", "1" >>),
    Some(<< "1", ",", "x" >>) }

ProfInit ==
  /\ ConnInit
  /\ asr_engine = "stub"
  /\ mux = MuxIdle
  /\ \E d \in ProfShapes, w \in ProfWindows, s \in ProfShifts,
        neg \in ProfVectors, inv \in ProfVectors :
       call = [pc |-> "io", shape |-> d,
               meta |-> [lfr_window_size |-> w, lfr_window_shift |-> s,
                         neg_mean |-> neg, inv_stddev |-> inv],
               feature_dim |-> 0, lfr_m |-> 0, lfr_n |-> 0, n_mels |-> 0,
               cmvn_neg_mean |-> << >>, cmvn_inv_stddev |-> << >>,
               error |-> ""]

\* Lines 153-157: feature_dim = int(x_inp.shape[-1])
ProfShape ==
  /\ call.pc = "io"
  /\ call' = IF call.shape = None
               THEN [call EXCEPT !.pc = "raised", !.error = "RuntimeError"]
               ELSE [call EXCEPT !.pc = "lfr",
                       !.feature_dim = call.shape[1]]
  /\ UNCHANGED << conn, mux >>

\* Lines 159-163: the LFR window and shift, and the test that the window
\* divides feature_dim; a window of 0 raises ZeroDivisionError.
ProfWindow ==
  /\ call.pc = "lfr"
  /\ LET m == MetaInt(call.meta.lfr_window_size, DefaultLfrM)
         n == MetaInt(call.meta.lfr_window_shift, DefaultLfrN)
     IN call' =
          IF m = None \/ n = None
            THEN [call EXCEPT !.pc = "raised", !.error = "ValueError"]
          ELSE IF m[1] = 0
            THEN [call EXCEPT !.pc = "raised", !.error = "ZeroDivisionError"]
          ELSE IF ~Divides(m[1], call.feature_dim)
            THEN [call EXCEPT !.pc = "raised", !.error = "RuntimeError"]
          ELSE [call EXCEPT !.pc = "cmvn", !.lfr_m = m[1], !.lfr_n = n[1],
                  !.n_mels = FloorDiv(call.feature_dim, m[1])]
  /\ UNCHANGED << conn, mux >>

\* Lines 165-174: both CMVN vectors.
ProfCmvn ==
  /\ call.pc = "cmvn"
  /\ LET neg == ParseCsvVector(call.meta.neg_mean, call.feature_dim)
         inv == ParseCsvVector(call.meta.inv_stddev, call.feature_dim)
     IN call' =
          IF neg = None \/ inv = None
            THEN [call EXCEPT !.pc = "raised", !.error = "RuntimeError"]
          ELSE [call EXCEPT !.pc = "session", !.cmvn_neg_mean = neg[1],
                  !.cmvn_inv_stddev = inv[1]]
  /\ UNCHANGED << conn, mux >>

\* Lines 79-102: the inference session is created, or onnxruntime raises.
ProfSession ==
  /\ call.pc = "session"
  /\ \/ call' = [call EXCEPT !.pc = "constructed"]
     \/ call' = [call EXCEPT !.pc = "raised", !.error = "onnxruntime"]
  /\ UNCHANGED << conn, mux >>

ProfNext ==
  \/ ProfShape
  \/ ProfWindow
  \/ ProfCmvn
  \/ ProfSession

ProfSpec == ProfInit /\ [][ProfNext]_vars


\* ------------------------------------------------------- main.py: startup
\* The exceptions with which the constructor rejects the model's profile.
ProfileErrors == { "RuntimeError", "ValueError", "ZeroDivisionError" }

\* What startup leaves alone: the connections are not open yet.
notEngine ==
  << session, task, inbox, connected, replies, logged, cur, history, mux >>

\* Line 27: the module starts with a StubAsrEngine; startup has yet to run.
StartInit ==
  /\ ConnInit
  /\ asr_engine = "stub"
  /\ mux = MuxIdle
  /\ \E exists \in BOOLEAN, d \in ProfShapes, w \in ProfWindows,
        s \in ProfShifts, neg \in ProfVectors, inv \in ProfVectors :
       call = [pc |-> "startup", exists |-> exists, shape |-> d,
               meta |-> [lfr_window_size |-> w, lfr_window_shift |-> s,
                         neg_mean |-> neg, inv_stddev |-> inv],
               feature_dim |-> 0, lfr_m |-> 0, lfr_n |-> 0, n_mels |-> 0,
               cmvn_neg_mean |-> << >>, cmvn_inv_stddev |-> << >>,
               error |-> "", logs |-> {}]

\* Lines 36-46 and 74-78: the model file is there and SenseVoiceEngine is
\* called, or it is not and a warning is logged.
StartModel ==
  /\ call.pc = "startup"
  /\ call' = IF call.exists
               THEN [call EXCEPT !.pc = "io"]
               ELSE [call EXCEPT !.pc = "log",
                       !.logs = @ \cup { "model not found" }]
  /\ UNCHANGED conn
  /\ UNCHANGED mux

\* Lines 46-66: the engine is constructed and becomes asr_engine.
StartLoaded ==
  /\ call.pc = "constructed"
  /\ asr_engine' = "sensevoice"
  /\ call' = [call EXCEPT !.pc = "log", !.logs = @ \cup { "model loaded" }]
  /\ UNCHANGED notEngine

\* Lines 67-73: any exception of the constructor is caught; asr_engine is a
\* new StubAsrEngine.
StartFailed ==
  /\ call.pc = "raised"
  /\ asr_engine' = "stub"
  /\ call' = [call EXCEPT !.pc = "log", !.logs = @ \cup { "load failed" }]
  /\ UNCHANGED notEngine

\* Lines 80-81: "Server ready"; startup returns and connections are served.
StartReady ==
  /\ call.pc = "log"
  /\ call' = [call EXCEPT !.pc = "ready", !.logs = @ \cup { "ready" }]
  /\ UNCHANGED conn
  /\ UNCHANGED mux

StartNext ==
  \/ StartModel
  \/ ProfShape
  \/ ProfWindow
  \/ ProfCmvn
  \/ ProfSession
  \/ StartLoaded
  \/ StartFailed
  \/ StartReady

StartSpec == StartInit /\ [][StartNext]_vars


\* ---------------------------- decode_opus_packets_to_pcm_s16le, on its own
\* The PcmAudio returned, or the exception raised: sample_rate is the
\* output_sample_rate asked for and channels is 1 on both return paths
\* (audio.py 187 and 214-218).
DecodeOpusPackets(packets, input_sample_rate, output_sample_rate) ==
  { IF r.ok
      THEN [ok |-> TRUE, pcm_s16le |-> r.pcm,
            sample_rate |-> output_sample_rate, channels |-> 1, err |-> ""]
      ELSE [ok |-> FALSE, pcm_s16le |-> 0, sample_rate |-> 0,
            channels |-> 0, err |-> r.err] :
    r \in DecodeOutcomes(packets, input_sample_rate) }

DecOutputRates == { 8000, 16000, 48000 }

DecInit ==
  /\ ConnInit
  /\ asr_engine = "stub"
  /\ mux = MuxIdle
  /\ \E packets \in SeqsUpTo(MuxPacketLens, MaxMuxPackets),
        input \in MuxRates, output \in DecOutputRates :
       call = [pc |-> "decode", packets |-> packets,
               input_sample_rate |-> input, output_sample_rate |-> output,
               result |-> None, err |-> ""]

\* audio.py 180-218
DecDecode ==
  /\ call.pc = "decode"
  /\ \E r \in DecodeOpusPackets(call.packets, call.input_sample_rate,
                               call.output_sample_rate) :
       call' = IF r.ok
                 THEN [call EXCEPT !.pc = "returned",
                         !.result = Some([pcm_s16le |-> r.pcm_s16le,
                                          sample_rate |-> r.sample_rate,
                                          channels |-> r.channels])]
                 ELSE [call EXCEPT !.pc = "raised", !.err = r.err]
  /\ UNCHANGED << conn, mux >>

DecNext ==
  \/ DecDecode

DecSpec == DecInit /\ [][DecNext]_vars


\* ------------------------------------------------- server_entry.py: main
\* A path is the list of its names below the root.
RECURSIVE SplitPathFrom(_, _, _)
SplitPathFrom(s, i, name) ==
  IF i > Len(s) THEN << name >>
  ELSE IF s[i] = "/"
    THEN << name >> \o SplitPathFrom(s, i + 1, << >>)
  ELSE SplitPathFrom(s, i + 1, Append(name, s[i]))

\* Path(s).expanduser().resolve() of an absolute path without "~", ".." or
\* links: its names.
PathOf(s) ==
  SelectSeq(SplitPathFrom(s, 1, << >>), LAMBDA name : name # << >>)

\* str(path)
RECURSIVE PathStr(_)
PathStr(path) ==
  IF path = << >> THEN << >>
  ELSE << "/" >> \o Head(path) \o PathStr(Tail(path))

\* server_entry.py 35: Path(__file__).resolve().parents[1], the server/
\* directory of a source checkout.
SourceDir == << << "s" >>, << "server" >> >>

\* server_entry.py 33: the directory of the packaged executable.
ExeDir == << << "d" >> >>

\* The directory into which a one-file package unpacks its modules.
UnpackDir == << << "t" >> >>

\* server_entry.py 18-35: _resolve_base_path
ResolveBasePath(env, frozen) ==
  LET value == Strip(IF env = None THEN << >> ELSE env[1]) IN
  IF value # << >> THEN PathOf(value)
  ELSE IF frozen THEN ExeDir
  ELSE SourceDir

\* server_entry.py 58-59: _model_path
ModelPath(base_path) ==
  base_path \o << << "models" >>, << "sensevoice-small.onnx" >> >>

\* main.py 26: MODEL_PATH, from the directory two levels above main.py.
ServiceModelPath(main_dir) == ModelPath(main_dir)

\* server_config.py 9-13 and 23-61: the configuration load_config returns,
\* the defaults or the values of config.json.
EntryConfigs ==
  { [host |-> << "0", ".", "0", ".", "0", ".", "0" >>, port |-> 8000,
     log_level |-> "INFO"],
    [host |-> << "c" >>, port |-> 1, log_level |-> "DEBUG"] }

\* Values of --host and --port on the command line, None when not given.
EntryHosts == { None, Some(<< " " >>), Some(<< "h" >>) }
EntryPorts == { None, Some(<< "9" >>), Some(<< "x" >>) }

\* Values of GHOSTTYPE_BASE_PATH before main runs.
EntryEnvs ==
  { None, Some(<< >>), Some(<< " " >>), Some(<< "/", "e" >>),
    Some(<< " ", "/", "e", " " >>),
    Some(<< "/", "s", "/", "s", "e", "r", "v", "e", "r" >>) }

\* The model files that may exist.
EntryFiles ==
  SUBSET { ModelPath(<< << "e" >> >>), ModelPath(SourceDir),
           ModelPath(ExeDir) }

\* Where main.py lies: in the checkout, or for a package next to the
\* executable or in the directory it unpacks to.
MainDirs(frozen) == IF frozen THEN { ExeDir, UnpackDir } ELSE { SourceDir }

ModelExistsAlways(model_path, files) == TRUE

\* server_entry.py 114: model_path.exists()
ModelExists(model_path, files) == model_path \in files

\* server_entry.py 124
ExitMissingModel == 2

\* argparse's exit status for a command line it refuses.
ExitUsage == 2

EntryInit ==
  /\ ConnInit
  /\ asr_engine = "stub"
  /\ mux = MuxIdle
  /\ \E host \in EntryHosts, port \in EntryPorts, no_gui \in BOOLEAN,
        run_server \in BOOLEAN, env \in EntryEnvs, frozen \in BOOLEAN,
        files \in EntryFiles, config \in EntryConfigs,
        log \in { None, Some("DEBUG") } :
       \E main_dir \in MainDirs(frozen) :
         call = [pc |-> "argv",
                 argv |-> [host |-> host, port |-> port, no_gui |-> no_gui,
                           run_server |-> run_server],
                 environ |-> [GHOSTTYPE_BASE_PATH |-> env,
                              GHOSTTYPE_LOG |-> log],
                 frozen |-> frozen, main_dir |-> main_dir, files |-> files,
                 config |-> config, base_path |-> << >>, host |-> << >>,
                 port |-> 0, model_path |-> << >>, stderr |-> FALSE,
                 dialog |-> FALSE, started |-> "none", code |-> None,
                 service_model_path |-> << >>]

\* Lines 93-99: parse_args; a --port that is not a number ends the process
\* with argparse's usage error.
EntryArgs ==
  /\ call.pc = "argv"
  /\ call' =
       IF call.argv.port # None /\ ParseInt(Strip(call.argv.port[1])) = None
         THEN [call EXCEPT !.pc = "exited", !.stderr = TRUE,
                 !.code = Some(ExitUsage)]
         ELSE [call EXCEPT !.pc = "base"]
  /\ UNCHANGED << conn, mux >>

\* Lines 101-111: the base path, which also becomes GHOSTTYPE_BASE_PATH;
\* host and port from the command line or the configuration; GHOSTTYPE_LOG
\* from the configuration when it is not set.
EntryBase ==
  /\ call.pc = "base"
  /\ LET base_path == ResolveBasePath(call.environ.GHOSTTYPE_BASE_PATH,
                                      call.frozen)
         given == Strip(IF call.argv.host = None THEN << >>
                        ELSE call.argv.host[1])
         level == IF call.environ.GHOSTTYPE_LOG = None THEN << >>
                  ELSE call.environ.GHOSTTYPE_LOG
     IN call' = [call EXCEPT
          !.pc = "model",
          !.base_path = base_path,
          !.environ = [GHOSTTYPE_BASE_PATH |-> Some(PathStr(base_path)),
                       GHOSTTYPE_LOG |->
                         IF level = << >> THEN Some(call.config.log_level)
                         ELSE level],
          !.host = IF given # << >> THEN given ELSE call.config.host,
          !.port = IF call.argv.port # None
                     THEN ParseInt(Strip(call.argv.port[1]))[1]
                     ELSE call.config.port]
  /\ UNCHANGED << conn, mux >>

\* Lines 113-124: without the model file the message goes to stderr or to a
\* dialog and main returns 2.
EntryModel ==
  /\ call.pc = "model"
  /\ LET model_path == ModelPath(call.base_path) IN
     call' =
       IF ~ModelExists(model_path, call.files)
         THEN [call EXCEPT !.pc = "returned", !.model_path = model_path,
                 !.stderr = call.argv.no_gui \/ call.argv.run_server,
                 !.dialog = ~(call.argv.no_gui \/ call.argv.run_server),
                 !.code = Some(ExitMissingModel)]
         ELSE [call EXCEPT !.pc = "launch", !.model_path = model_path]
  /\ UNCHANGED << conn, mux >>

\* Lines 126-131: uvicorn serves app.main:app, whose MODEL_PATH is set when
\* the module is imported, or the GUI runs; main returns their result.
EntryLaunch ==
  /\ call.pc = "launch"
  /\ \/ /\ call.argv.no_gui \/ call.argv.run_server
        /\ call' = [call EXCEPT !.pc = "returned", !.started = "server",
                      !.service_model_path = ServiceModelPath(call.main_dir),
                      !.code = Some(0)]
     \/ /\ ~(call.argv.no_gui \/ call.argv.run_server)
        /\ \E code \in { 0, 1 } :
             call' = [call EXCEPT !.pc = "returned", !.started = "gui",
                        !.code = Some(code)]
  /\ UNCHANGED << conn, mux >>

EntryNext ==
  \/ EntryArgs
  \/ EntryBase
  \/ EntryModel
  \/ EntryLaunch

EntrySpec == EntryInit /\ [][EntryNext]_vars


\* ------------------------------------------------ asr.py: _load_token_list
\* Line 288: the metadata keys, in the order tried.
MetaKeys == << "token_list", "tokens", "vocab", "char_list" >>

\* A metadata value is [form, body]: absent; text that does not start with
\* "[" (body: its characters); or text that starts with "[" and is a JSON
\* list of strings (body: the strings), other JSON or no JSON (body: its
\* characters).
MetaAbsent == [form |-> "absent", body |-> << >>]
MetaText(chars) == [form |-> "text", body |-> chars]
MetaJsonStrings(tokens) == [form |-> "json_strings", body |-> tokens]
MetaJsonOther(chars) == [form |-> "json_other", body |-> chars]
MetaJsonBad(chars) == [form |-> "json_bad", body |-> chars]

\* Lines 289-302, for one key: Some(tokens) when the function returns at
\* this key, None when the loop goes on to the next key.
ResolveKey(value) ==
  IF value.form = "absent" \/ (value.form = "text" /\ value.body = << >>)
    THEN None
  ELSE IF value.form = "json_strings" THEN Some(value.body)
  ELSE IF value.form = "json_bad" THEN None
  ELSE LET tokens == SelectSeq(SplitLinesFrom(Strip(value.body), 1, << >>),
                               LAMBDA line : Strip(line) # << >>)
       IN IF tokens # << >> THEN Some(tokens) ELSE None

\* The same with a session at hand whatever has_session says.
LoadFromMetadataWithSession(has_session, meta) ==
  LET hits == { k \in 1..Len(MetaKeys) : ResolveKey(meta[MetaKeys[k]]) # None }
  IN IF hits = {} THEN None
     ELSE ResolveKey(meta[MetaKeys[CHOOSE k \in hits :
                                     \A o \in hits : k <= o]])

\* Lines 281-303: _load_token_list_from_model_metadata.  It reads the
\* metadata through self.session; without that attribute the AttributeError
\* is caught at 285 and None is returned.
LoadFromMetadata(has_session, meta) ==
  IF ~has_session THEN None
  ELSE LoadFromMetadataWithSession(has_session, meta)

\* Lines 264-278: the first candidate file that can be read and parses to a
\* non-empty list.
LoadFromFiles(files) ==
  LET parsed(k) == IF files[k] = None THEN None
                   ELSE ParseTokenFile(files[k][1])
      hits == { k \in 1..Len(files) :
                  parsed(k) # None /\ parsed(k)[1] # << >> }
  IN IF hits = {} THEN None
     ELSE parsed(CHOOSE k \in hits : \A o \in hits : k <= o)

\* Values of the keys token_list and tokens.
VocValues ==
  { MetaAbsent, MetaText(<< >>), MetaText(<< " " >>),
    MetaText(<< "a", "\n", "b" >>), MetaJsonStrings(<< << "j" >> >>),
    MetaJsonStrings(<< >>), MetaJsonOther(<< "[", "1", "]" >>),
    MetaJsonBad(<< "[", "a" >>) }

\* The five candidate files, None for one that cannot be read.
VocFiles ==
  { << f1, f2, f3, f4, f5 >> :
      f1 \in { None, Some(<< >>), Some(<< "x", " ", "0" >>) },
      f2 \in { None, Some(<< "y" >>) },
      f3 \in { None, Some(<< "z" >>) },
      f4 \in { None },
      f5 \in { None, Some(<< "u" >>) } }

VocInit ==
  /\ ConnInit
  /\ asr_engine = "stub"
  /\ mux = MuxIdle
  /\ \E t \in VocValues, k \in VocValues,
        v \in { MetaAbsent, MetaText(<< "v" >>) },
        c \in { MetaAbsent, MetaJsonStrings(<< << "c" >> >>) },
        files \in VocFiles :
       call = [pc |-> "metadata",
               meta |-> [token_list |-> t, tokens |-> k, vocab |-> v,
                         char_list |-> c],
               files |-> files, has_session |-> FALSE, read_files |-> FALSE,
               token_list |-> None]

\* Line 260, called from __init__ at line 76, before self.session is
\* assigned at line 97.
VocMetadata ==
  /\ call.pc = "metadata"
  /\ LET token_list == LoadFromMetadata(call.has_session, call.meta) IN
     call' = IF token_list # None /\ token_list[1] # << >>
               THEN [call EXCEPT !.pc = "loaded", !.token_list = token_list]
               ELSE [call EXCEPT !.pc = "files"]
  /\ UNCHANGED << conn, mux >>

\* Lines 264-278
VocCandidates ==
  /\ call.pc = "files"
  /\ call' = [call EXCEPT !.pc = "loaded", !.read_files = TRUE,
                !.token_list = LoadFromFiles(call.files)]
  /\ UNCHANGED << conn, mux >>

VocNext ==
  \/ VocMetadata
  \/ VocCandidates

VocSpec == VocInit /\ [][VocNext]_vars


\* -------------------------------- asr.py: the providers and the session
CUDA == "CUDAExecutionProvider"
CoreML == "CoreMLExecutionProvider"
DML == "DmlExecutionProvider"
CPU == "CPUExecutionProvider"

\* Lines 81-86: the priority list of a caller that gives none.
DefaultProviders == << CUDA, CoreML, DML, CPU >>

\* Lines 79-95: the providers requested.  preferred is None or Some(list),
\* available is the list of onnxruntime, onnx_infer the metadata value of
\* "onnx.infer" (None when absent).
WantedProviders(preferred, available, onnx_infer) ==
  LET list == IF preferred = None \/ preferred[1] = << >>
                THEN DefaultProviders ELSE preferred[1]
      there == { available[k] : k \in 1..Len(available) }
      wants == SelectSeq(list, LAMBDA p : p \in there)
      found == IF wants # << >> THEN wants
               ELSE IF available # << >> THEN available
               ELSE << CPU >>
      is_ort_quant ==
        Strip(IF onnx_infer = None THEN << >> ELSE onnx_infer[1])
          = << "onnxruntime.quant" >>
      kept == SelectSeq(found, LAMBDA p : ~(p = DML /\ is_ort_quant))
  IN IF kept # << >> THEN kept ELSE << CPU >>

\* The same with 0 tried before 1.
CandidateDmlDeviceIdsZeroFirst(dml_device_id, ghosttype_id, ort_id) ==
  IF dml_device_id # None THEN << dml_device_id[1] >>
  ELSE LET raw == IF ghosttype_id # None /\ ghosttype_id[1] # << >>
                    THEN ghosttype_id ELSE ort_id
       IN IF raw # None
            THEN IF ParseInt(Strip(raw[1])) # None
                   THEN << ParseInt(Strip(raw[1]))[1] >>
                   ELSE << 0 >>
            ELSE << 0, 1 >>

\* Lines 245-257: _candidate_dml_device_ids, from config.dml_device_id and
\* the variables GHOSTTYPE_DML_DEVICE_ID and ORT_DML_DEVICE_ID.
CandidateDmlDeviceIds(dml_device_id, ghosttype_id, ort_id) ==
  IF dml_device_id # None THEN << dml_device_id[1] >>
  ELSE LET raw == IF ghosttype_id # None /\ ghosttype_id[1] # << >>
                    THEN ghosttype_id ELSE ort_id
       IN IF raw # None
            THEN IF ParseInt(Strip(raw[1])) # None
                   THEN << ParseInt(Strip(raw[1]))[1] >>
                   ELSE << 0 >>
            ELSE << 1, 0 >>

SessPreferred == { None, Some(<< >>), Some(<< CUDA >>), Some(<< CPU, DML >>) }

SessAvailable ==
  { << >>, << CPU >>, << CUDA, CPU >>, << DML, CPU >>,
    << CUDA, DML, CPU >>, << CoreML, CPU >> }

SessOnnxInfer ==
  { None, Some(<< "onnxruntime.quant" >>),
    Some(<< " ", "onnxruntime.quant", " " >>), Some(<< "other" >>) }

\* Line 70 has created cpu_session; the engine has no session yet.
SessInit ==
  /\ ConnInit
  /\ asr_engine = "stub"
  /\ mux = MuxIdle
  /\ \E preferred \in SessPreferred, available \in SessAvailable,
        onnx_infer \in SessOnnxInfer, dml_device_id \in { None, Some(2) },
        ghosttype_id \in { None, Some(<< >>), Some(<< "3" >>),
                           Some(<< "x" >>) },
        ort_id \in { None, Some(<< >>), Some(<< "4" >>) } :
       call = [pc |-> "providers", preferred |-> preferred,
               available |-> available, onnx_infer |-> onnx_infer,
               dml_device_id |-> dml_device_id,
               ghosttype_id |-> ghosttype_id, ort_id |-> ort_id,
               requested |-> << >>, dml_ids |-> << >>, attempts |-> << >>,
               warned |-> FALSE, session |-> None]

\* Lines 79-95
SessProviders ==
  /\ call.pc = "providers"
  /\ call' = [call EXCEPT !.pc = "create",
                !.requested = WantedProviders(call.preferred, call.available,
                                              call.onnx_infer)]
  /\ UNCHANGED << conn, mux >>

\* Lines 215-222: a request for the CPU alone is served by cpu_session; one
\* without DirectML makes one InferenceSession, whose exception is not
\* caught; one with DirectML goes through the candidate devices.
SessCreate ==
  /\ call.pc = "create"
  /\ IF call.requested = << CPU >>
       THEN call' = [call EXCEPT !.pc = "constructed",
                       !.session = Some(<< CPU >>)]
     ELSE IF \A k \in 1..Len(call.requested) : call.requested[k] # DML
       THEN \/ call' = [call EXCEPT !.pc = "constructed",
                          !.attempts = << [providers |-> call.requested,
                                           device_id |-> None,
                                           ok |-> TRUE] >>,
                          !.session = Some(call.requested)]
            \/ call' = [call EXCEPT !.pc = "raised",
                          !.attempts = << [providers |-> call.requested,
                                           device_id |-> None,
                                           ok |-> FALSE] >>]
     ELSE call' = [call EXCEPT !.pc = "dml",
                     !.dml_ids = CandidateDmlDeviceIds(call.dml_device_id,
                                   call.ghosttype_id, call.ort_id)]
  /\ UNCHANGED << conn, mux >>

\* Lines 224-234: one InferenceSession for the next candidate device.
SessDmlAttempt ==
  /\ call.pc = "dml"
  /\ Len(call.attempts) < Len(call.dml_ids)
  /\ LET device_id == call.dml_ids[Len(call.attempts) + 1] IN
     \E ok \in BOOLEAN :
       call' = [call EXCEPT
          !.pc = IF ok THEN "constructed" ELSE "dml",
          !.attempts = Append(@, [providers |-> call.requested,
                                  device_id |-> Some(device_id),
                                  ok |-> ok]),
          !.session = IF ok THEN Some(call.requested) ELSE None]
  /\ UNCHANGED << conn, mux >>

\* Lines 236-243: every candidate failed; a warning, and cpu_session.
SessDmlFallback ==
  /\ call.pc = "dml"
  /\ Len(call.attempts) = Len(call.dml_ids)
  /\ call' = [call EXCEPT !.pc = "constructed",
                !.warned = call.attempts # << >>,
                !.session = Some(<< CPU >>)]
  /\ UNCHANGED << conn, mux >>

SessNext ==
  \/ SessProviders
  \/ SessCreate
  \/ SessDmlAttempt
  \/ SessDmlFallback

SessSpec == SessInit /\ [][SessNext]_vars


\* ------------------------------------- asr.py: the waveform mode of transcribe
\* The same with the flat shape tried first.
WaveShapesFlatFirst(n) == << << n >>, << 1, n >>, << 1, 1, n >> >>

\* Line 386: the shapes the waveform of n samples is offered in.
WaveShapes(n) == << << 1, n >>, << n >>, << 1, 1, n >> >>

WaveMessages == { "e1", "e2" }

\* audio_pcm is given by its length in bytes.
WaveInit ==
  /\ ConnInit
  /\ asr_engine = "stub"
  /\ mux = MuxIdle
  /\ \E pcm_bytes \in 0..4, rate \in { 16000, 48000 },
        length_type \in { None, Some("int32"), Some("int64") } :
       call = [pc |-> "called", pcm_bytes |-> pcm_bytes, rate |-> rate,
               length_type |-> length_type, base_inputs |-> << >>,
               attempts |-> << >>, result |-> None, error |-> None]

\* Lines 334-383: the sample rate is checked, the bytes are read as int16
\* samples, which fails for an odd length, and the length input is built.
WavePrepare ==
  /\ call.pc = "called"
  /\ IF call.rate # EngineSampleRate
       THEN call' = [call EXCEPT !.pc = "returned",
                       !.result = Some(<< "unsupported sample_rate",
                                          call.rate >>)]
     ELSE IF call.pcm_bytes % 2 # 0
       THEN call' = [call EXCEPT !.pc = "raised",
                       !.error = Some(<< "ValueError" >>)]
     ELSE call' = [call EXCEPT !.pc = "shapes",
                     !.base_inputs =
                       IF call.length_type = None THEN << >>
                       ELSE << << call.length_type[1],
                                  call.pcm_bytes \div 2 >> >>]
  /\ UNCHANGED << conn, mux >>

\* Lines 386-392: session.run and _decode_outputs on the next shape; an
\* exception of either is kept and the next shape is tried.
WaveAttempt ==
  /\ call.pc = "shapes"
  /\ Len(call.attempts) < Len(WaveShapes(call.pcm_bytes \div 2))
  /\ LET wave_in ==
           WaveShapes(call.pcm_bytes \div 2)[Len(call.attempts) + 1] IN
     \/ call' = [call EXCEPT !.pc = "returned",
                   !.attempts = Append(@, [shape |-> wave_in,
                                           exc |-> None]),
                   !.result = Some(<< "text", wave_in >>)]
     \/ \E message \in WaveMessages :
          call' = [call EXCEPT
             !.attempts = Append(@, [shape |-> wave_in,
                                     exc |-> Some(message)])]
  /\ UNCHANGED << conn, mux >>

\* Line 393: no shape is left.
WaveRaise ==
  /\ call.pc = "shapes"
  /\ Len(call.attempts) = Len(WaveShapes(call.pcm_bytes \div 2))
  /\ call' = [call EXCEPT !.pc = "raised",
                !.error = Some(<< "onnx inference failed: ",
                                  call.attempts[Len(call.attempts)].exc[1] >>)]
  /\ UNCHANGED << conn, mux >>

WaveNext ==
  \/ WavePrepare
  \/ WaveAttempt
  \/ WaveRaise

WaveSpec == WaveInit /\ [][WaveNext]_vars


\* --------------------------- audio.py: the segment table, turn by turn
\* The same with a remainder of exactly 255 left to the closing value.
WholeSegmentStrict(remaining) == remaining > 255

\* Line 74: the guard of the loop of _segment_table_for_packet.
WholeSegment(remaining) == remaining >= 255

SegPacketLens ==
  { -1, 0, 1, 254, 255, 256, 509, 510, 65024, 65025, 65026, 65280 }

SegInit ==
  /\ ConnInit
  /\ asr_engine = "stub"
  /\ mux = MuxIdle
  /\ \E packet_len \in SegPacketLens :
       call = [pc |-> "called", packet_len |-> packet_len,
               remaining |-> 0, lacing |-> << >>, error |-> ""]

\* Lines 69-73
SegCheck ==
  /\ call.pc = "called"
  /\ call' = IF call.packet_len < 0
               THEN [call EXCEPT !.pc = "raised",
                       !.error = "packet_len must be >= 0"]
               ELSE [call EXCEPT !.pc = "loop",
                       !.remaining = call.packet_len]
  /\ UNCHANGED << conn, mux >>

\* Lines 74-76: one turn of the loop.
SegWhole ==
  /\ call.pc = "loop"
  /\ WholeSegment(call.remaining)
  /\ call' = [call EXCEPT !.lacing = Append(@, 255),
                !.remaining = @ - 255]
  /\ UNCHANGED << conn, mux >>

\* Lines 77-80: the closing value.
SegClose ==
  /\ call.pc = "loop"
  /\ ~WholeSegment(call.remaining)
  /\ call' = [call EXCEPT !.pc = "table",
                !.lacing = Append(@, IF call.remaining > 0
                                       THEN call.remaining ELSE 0)]
  /\ UNCHANGED << conn, mux >>

\* Lines 95-97 of _build_ogg_page: the table of more than 255 values is
\* refused.
SegPage ==
  /\ call.pc = "table"
  /\ call' = IF Len(call.lacing) > MaxSegments
               THEN [call EXCEPT !.pc = "raised",
                       !.error = "packet too large for single Ogg page in this MVP writer"]
               ELSE [call EXCEPT !.pc = "accepted"]
  /\ UNCHANGED << conn, mux >>

SegNext ==
  \/ SegCheck
  \/ SegWhole
  \/ SegClose
  \/ SegPage

SegSpec == SegInit /\ [][SegNext]_vars


\* ------------------------------------------- gui.py: the supervisor's state
\* Lines 32-39: RuntimeState.effective_status
EffectiveStatus(st) ==
  IF st.error THEN "error"
  ELSE IF st.processing THEN "processing"
  ELSE IF st.connected_clients > 0 THEN "connected"
  ELSE "idle"

\* The threads started at lines 416-419, one for each stream of the server.
PumpThreads == { "stdout", "stderr" }

\* The markers of _handle_log_line, lines 447-456.
Markers ==
  { "Client connected", "Client disconnected", "ASR inference started",
    "ASR inference completed", "Audio decode failed" }

PumpIdle == [pc |-> "idle", marker |-> "", loaded |-> 0, status |-> "idle"]

\* The tray icon exists and shows the status of a fresh RuntimeState; no
\* thread is handling a line.  Nothing synchronises the threads.
GuiInit ==
  /\ ConnInit
  /\ asr_engine = "stub"
  /\ mux = MuxIdle
  /\ call = [pc |-> "gui",
             state |-> [connected_clients |-> 0, processing |-> FALSE,
                        error |-> FALSE],
             icon |-> "idle", lines |-> 0,
             thread |-> [t \in PumpThreads |-> PumpIdle]]

\* Lines 439-456: a thread reads a line that holds a marker and enters the
\* _mark_ function of the marker.
GuiHandleLogLine(t) ==
  /\ call.pc = "gui"
  /\ call.thread[t].pc = "idle"
  /\ call.lines < MaxLines
  /\ \E marker \in Markers :
       call' = [call EXCEPT !.lines = @ + 1,
                  !.thread[t] = [PumpIdle EXCEPT !.marker = marker,
                    !.pc = IF marker \in { "Client connected",
                                           "Client disconnected" }
                             THEN "load" ELSE "mutate"]]
  /\ UNCHANGED << conn, mux >>

\* Lines 355 and 362: the read of st.connected_clients.
GuiLoad(t) ==
  /\ call.thread[t].pc = "load"
  /\ call' = [call EXCEPT !.thread[t].pc = "mutate",
                !.thread[t].loaded = call.state.connected_clients]
  /\ UNCHANGED << conn, mux >>

\* Lines 347-377: the stores of the mutate function of the marker.
GuiMutate(t) ==
  /\ call.thread[t].pc = "mutate"
  /\ LET marker == call.thread[t].marker
         loaded == call.thread[t].loaded
         st == call.state
     IN call' = [call EXCEPT !.thread[t].pc = "status",
          !.state =
            IF marker = "Client connected"
              THEN [st EXCEPT !.connected_clients = loaded + 1,
                              !.error = FALSE]
            ELSE IF marker = "Client disconnected"
              THEN [st EXCEPT !.connected_clients = Max(0, loaded - 1)]
            ELSE IF marker = "ASR inference started"
              THEN [st EXCEPT !.processing = TRUE, !.error = FALSE]
            ELSE IF marker = "ASR inference completed"
              THEN [st EXCEPT !.processing = FALSE]
            ELSE [st EXCEPT !.error = TRUE]]
  /\ UNCHANGED << conn, mux >>

\* Line 344: the argument self._state.effective_status() is evaluated.
GuiStatus(t) ==
  /\ call.thread[t].pc = "status"
  /\ call' = [call EXCEPT !.thread[t].pc = "set",
                !.thread[t].status = EffectiveStatus(call.state)]
  /\ UNCHANGED << conn, mux >>

\* Lines 309-316: _set_status puts the icon of that status on the tray.
GuiSetStatus(t) ==
  /\ call.thread[t].pc = "set"
  /\ call' = [call EXCEPT !.icon = call.thread[t].status,
                !.thread[t] = PumpIdle]
  /\ UNCHANGED << conn, mux >>

GuiNext ==
  \/ \E t \in PumpThreads : GuiHandleLogLine(t)
  \/ \E t \in PumpThreads : GuiLoad(t)
  \/ \E t \in PumpThreads : GuiMutate(t)
  \/ \E t \in PumpThreads : GuiStatus(t)
  \/ \E t \in PumpThreads : GuiSetStatus(t)

GuiSpec == GuiInit /\ [][GuiNext]_vars


\* ================================================================== claims
StopFrame == TextFrame("stop", NoPayload)

IsStart(f) ==
  f.kind = "text" /\ f.json /\ f.type = "start" /\ f.malformed = ""

BufferEmpty == opus_packets = << >> /\ packet_count = 0 /\ total_bytes = 0

\* C1: whenever no finalization is in flight, the number of fast_text
\* messages sent so far equals the number of stops that were accepted (that
\* entered the pipeline), whatever the pipeline steps did.
C1_FastTextPerAcceptedStop ==
  pc = "recv" => nFastText = nAccepted

\* C2: when the recognizer raised while an accepted stop was handled, the
\* answer to that stop is one error starting `asr failed:` followed by one
\* fast_text holding the [asr_error: ...] placeholder, nothing else, and the
\* packet buffer is cleared.
C2_AsrFailureAnswer ==
  outcome = "asr_failed" =>
    /\ Len(replies) = 2
    /\ replies[1].type = "error"
    /\ replies[1].message[1] = "asr failed: "
    /\ replies[2].type = "fast_text"
    /\ replies[2].content = AsrErrorText
    /\ BufferEmpty

\* C3: a stop received after a finalization has completed, with no start in
\* between, is answered with the single error `stop before start`; it runs
\* no pipeline and sends no fast_text.
C3_StopAfterFinalizationRejected ==
  (cur.frame = StopFrame /\ cur.afterFinal) =>
    /\ pc = "recv"
    /\ outcome = "none"
    /\ replies = << ErrorMsg("stop before start", "", trace_id) >>

\* C4: when muxing or decoding failed during an accepted stop, the answer
\* is exactly one error starting `audio decode failed:` and no fast_text,
\* the packet buffer is empty and the session is Idle.
C4_DecodeFailureAnswer ==
  outcome = "decode_failed" =>
    /\ Len(replies) = 1
    /\ replies[1].type = "error"
    /\ replies[1].message[1] = "audio decode failed: "
    /\ BufferEmpty
    /\ Lifecycle = "Idle"

\* C5: a stop that the client sent while the previous stop was still
\* finalizing (and that no start separates from it) is answered with an
\* error and starts no pipeline.
C5_StopDuringFinalizationRejected ==
  (cur.frame = StopFrame /\ cur.duringFinal /\ cur.afterFinal) =>
    /\ pc = "recv"
    /\ outcome = "none"
    /\ Len(replies) = 1
    /\ replies[1].type = "error"

\* C6: at most one finalization pipeline of the session is executing at any
\* moment, whatever the client sends and whenever it sends it.
C6_AtMostOnePipeline ==
  inflight <= 1

\* C6 witness: a pipeline is executing while a stop, sent during that
\* finalization, waits in the receive queue.
C6_Witness ==
  /\ inflight = 1
  /\ pc \in Pipeline
  /\ Len(inbox) >= 1
  /\ \A i \in 1..Len(inbox) :
       inbox[i].frame = StopFrame /\ inbox[i].duringFinal

\* C7: a step that receives a binary frame while the session is not
\* Capturing leaves the packet buffer and both counters unchanged.
C7_AppendOnlyWhileCapturing ==
  [][ ( /\ AtReceive
        /\ inbox # << >>
        /\ Head(inbox).frame.kind = "bytes"
        /\ inbox' = Tail(inbox)
        /\ Lifecycle # "Capturing" )
      => UNCHANGED << opus_packets, packet_count, total_bytes >> ]_vars

\* C8: the packet list handed to the pipeline by an accepted stop is exactly
\* the sequence of binary frames received since the most recent start, in
\* order of receipt.
C8_PipelineGetsFramesSinceStart ==
  pc \in Pipeline => handed = sinceStart

\* C9 (as claimed): after a start the session has sent nothing, the buffer
\* is empty with both counters 0, sample_rate is the supplied value or
\* 48000, and trace_id is the supplied string when that is a non-blank
\* string, else a 6-character base62 id.
IsBase62Id(t) ==
  /\ Len(t) = TraceIdLen
  /\ \A i \in 1..Len(t) : t[i] \in AlphabetChars

SuppliedNonBlank(p) ==
  /\ p.trace_id # None
  /\ p.trace_id[1].isStr
  /\ \E i \in 1..Len(p.trace_id[1].s) : p.trace_id[1].s[i] \notin Whitespace

C9_StartAsClaimed ==
  IsStart(cur.frame) =>
    /\ replies = << >>
    /\ BufferEmpty
    /\ sample_rate = IF cur.frame.payload.sample_rate = None
                       THEN Some(48000)
                       ELSE cur.frame.payload.sample_rate
    /\ IF SuppliedNonBlank(cur.frame.payload)
         THEN trace_id = Some(cur.frame.payload.trace_id[1].s)
         ELSE trace_id # None /\ IsBase62Id(trace_id[1])

\* C9 (amended): as above, but trace_id is the supplied non-blank string
\* with its leading and trailing whitespace removed.
C9_StartResets ==
  IsStart(cur.frame) =>
    /\ pc = "recv"
    /\ replies = << >>
    /\ BufferEmpty
    /\ sample_rate = IF cur.frame.payload.sample_rate = None
                       THEN Some(48000)
                       ELSE cur.frame.payload.sample_rate
    /\ IF SuppliedNonBlank(cur.frame.payload)
         THEN LET s == cur.frame.payload.trace_id[1].s
                  first == CHOOSE i \in 1..Len(s) :
                             /\ s[i] \notin Whitespace
                             /\ \A j \in 1..(i - 1) : s[j] \in Whitespace
                  last == CHOOSE i \in 1..Len(s) :
                            /\ s[i] \notin Whitespace
                            /\ \A j \in (i + 1)..Len(s) : s[j] \in Whitespace
              IN trace_id = Some(SubSeq(s, first, last))
         ELSE trace_id # None /\ IsBase62Id(trace_id[1])

\* C9 witness: a start that supplied a padded trace id has been handled
\* while packets of an earlier start were still buffered (start twice with
\* no stop).
C9_Witness ==
  /\ IsStart(cur.frame)
  /\ cur.prePackets > 0
  /\ SuppliedNonBlank(cur.frame.payload)
  /\ trace_id = Some(<< "b" >>)

\* C9, the other branch: an id was generated (1YHAGY is what the code
\* returns at 1730646000123456 microseconds).
C9_WitnessGenerated ==
  /\ IsStart(cur.frame)
  /\ cur.frame.payload.trace_id = None
  /\ trace_id = Some(<< "1", "Y", "H", "A", "G", "Y" >>)

\* C10: a step that handles a protocol violation (a stop before any start,
\* a text frame of unknown type, a text frame that is not JSON) sends
\* exactly one error and leaves the whole session state unchanged.
IsViolation(f) ==
  \/ f = BadJsonFrame
  \/ /\ f.kind = "text" /\ f.json /\ f.malformed = ""
     /\ f.type \notin { "ping", "start", "stop" }
  \/ f = StopFrame /\ sample_rate = None

C10_ViolationLeavesState ==
  [][ ( /\ AtReceive
        /\ inbox # << >>
        /\ IsViolation(Head(inbox).frame)
        /\ inbox' = Tail(inbox) )
      => /\ UNCHANGED session
         /\ Len(replies') = 1
         /\ replies'[1].type = "error" ]_vars

\* C11 (as claimed): websocket_endpoint is over only when the client has
\* closed the socket; no frame the client sends, malformed or not, and no
\* failure of the pipeline ends it.
C11_OnlySocketEndsSession ==
  pc \in Ended => ~connected

\* C12: every message the pipeline of an accepted stop sends (fast_text or
\* error) carries the trace_id the session had when the stop was accepted,
\* the one its start assigned, also when a start with another trace_id has
\* arrived in the meantime.
C12_RepliesCarryStopTrace ==
  [][ (pc \in Pipeline /\ cur' = cur)
      => \A i \in (Len(replies) + 1)..Len(replies') :
           /\ replies'[i].type \in { "fast_text", "error" }
           /\ replies'[i].trace_id = stop_trace_id ]_vars

\* C12 witness: the fast_text of the utterance started as "b" has gone out
\* with trace_id "b" while a start that supplies no trace_id, sent during
\* the finalization, waits in the receive queue.
C12_Witness ==
  /\ outcome = "ok"
  /\ Len(replies) = 1
  /\ replies[1].type = "fast_text"
  /\ replies[1].trace_id = Some(<< "b" >>)
  /\ inbox # << >>
  /\ IsStart(Head(inbox).frame)
  /\ Head(inbox).duringFinal
  /\ Head(inbox).frame.payload.trace_id = None

\* C13: while the result of an accepted stop is still to be sent, whatever
\* is sent answers that stop: no frame sent after the stop is taken from
\* the socket, let alone answered, before the pipeline has sent its result.
C13_ResultBeforeLaterReplies ==
  [][ (pc \in Pipeline /\ replies' # replies)
      => (cur' = cur /\ inbox' = inbox) ]_vars

\* C13 witness: a ping sent during a finalization has been answered, after
\* the fast_text of that finalization.
C13_Witness ==
  /\ cur.frame = TextFrame("ping", NoPayload)
  /\ cur.duringFinal
  /\ replies = << Pong >>
  /\ nFastText >= 1

\* C14 (as claimed): a ping that waits at the socket while the pipeline runs
\* can be answered straight away, without the pipeline finishing first.
C14_PingAnsweredDuringFinalization ==
  ( /\ pc \in Pipeline
    /\ inbox # << >>
    /\ Head(inbox).frame = TextFrame("ping", NoPayload) )
  => ENABLED RecvPing

\* C15: the step that receives a ping from a client that is still there
\* sends exactly one pong and leaves the session state, the lock and the
\* loop's position as they were.
C15_PingOnlyPongs ==
  [][ ( /\ AtReceive
        /\ connected
        /\ inbox # << >>
        /\ Head(inbox).frame = TextFrame("ping", NoPayload)
        /\ inbox' = Tail(inbox) )
      => /\ replies' = << Pong >>
         /\ UNCHANGED << session, locals, pc >> ]_vars

\* C15 witness: a ping was answered while packets were buffered.
C15_Witness ==
  /\ cur.frame = TextFrame("ping", NoPayload)
  /\ replies = << Pong >>
  /\ sample_rate # None
  /\ packet_count > 0
  /\ Len(opus_packets) = packet_count

\* The stop of a start-then-stop with no binary frame has been handled.
EmptyUtteranceDone ==
  /\ cur.frame = StopFrame
  /\ ~cur.afterFinal
  /\ sinceStart = << >>
  /\ sample_rate # None
  /\ pc = "recv"

\* transcribe was called while the current stop was handled.
RecognizerInvoked == outcome \in { "ok", "asr_failed" }

\* C16 (as claimed): start then stop with no binary frame yields exactly
\* one fast_text, with content "" and is_final true, and the recognizer is
\* not invoked.
C16_EmptyUtteranceAsClaimed ==
  (EmptyUtteranceDone /\ connected) =>
    /\ replies = << FastText(trace_id, EmptyText) >>
    /\ replies[1].is_final = Some(TRUE)
    /\ ~RecognizerInvoked

BadCapture ==
  \/ sample_rate[1] \notin { 8000, 12000, 16000, 24000, 48000 }
  \/ \E i \in 1..Len(handed) : handed[i] >= 255 * 255

ErrorAndReady ==
  /\ pc' = "recv"
  /\ Len(replies') = 1
  /\ replies'[1].type = "error"
  /\ replies'[1].message[1] = "audio decode failed: "
  /\ nFastText' = nFastText
  /\ BufferEmpty'

\* C18 (as claimed): the decode step of a bad capture ends with one error
\* and no fast_text, the buffer empty and the loop ready for the next start.
C18_BadCaptureAsClaimed ==
  [][ (pc = "decode" /\ pc' # "decode" /\ connected /\ BadCapture)
      => ErrorAndReady ]_vars

\* C18 (amended): the same, for a bad capture that holds at least one
\* packet.
C18_BadCaptureRejected ==
  [][ ( /\ pc = "decode" /\ pc' # "decode" /\ connected /\ BadCapture
        /\ handed # << >> )
      => ErrorAndReady ]_vars

\* C18 witness: a capture started at 44100 Hz, with a packet in it, was
\* refused.
C18_Witness ==
  /\ cur.frame = StopFrame
  /\ outcome = "decode_failed"
  /\ sample_rate = Some(44100)
  /\ cur.prePackets > 0
  /\ replies =
       << ErrorMsg("audio decode failed: ", "Unsupported sample rate",
                   trace_id) >>
  /\ pc = "recv"

\* C19 (as claimed): when the client closed the socket during a
\* finalization whose pipeline then ran to completion, no exception has
\* left websocket_endpoint, `Audio decode failed` was not logged, and the
\* buffer is empty.
C19_DisconnectDuringFinalization ==
  ( /\ cur.frame = StopFrame
    /\ outcome = "ok"
    /\ pc \notin Pipeline
    /\ \E i \in 1..Len(inbox) :
         inbox[i].frame = DisconnectFrame /\ inbox[i].duringFinal )
  => /\ pc # "crashed"
     /\ "Audio decode failed" \notin logged
     /\ BufferEmpty

\* The end-of-stream bit of a page's header_type.
HasEos(page) == (page.header_type \div 4) % 2 = 1

\* C20 (as claimed): what the muxer returns, for a supported rate and any
\* packet list, the empty one included, is the OpusHead page (header_type
\* 2, sequence 0), the OpusTags page (header_type 0, sequence 1), then one
\* page per packet in input order with sequence 2, 3, ..., and the last
\* page of the stream, and no other, has the end-of-stream bit.
C20_PagesAsClaimed ==
  mux.pc = "returned" =>
    /\ Len(mux.out) = Len(mux.packets) + 2
    /\ mux.out[1].header_type = 2
    /\ mux.out[1].sequence = 0
    /\ mux.out[1].packet.kind = "OpusHead"
    /\ mux.out[2].header_type = 0
    /\ mux.out[2].sequence = 1
    /\ mux.out[2].packet.kind = "OpusTags"
    /\ \A k \in 1..Len(mux.packets) :
         /\ mux.out[k + 2].sequence = k + 1
         /\ mux.out[k + 2].packet = mux.packets[k]
    /\ \A j \in 1..Len(mux.out) : HasEos(mux.out[j]) <=> j = Len(mux.out)

\* The Ogg CRC-32 as the format defines it, bit by bit: polynomial
\* 0x04C11DB7, most significant bit first, initial value 0, no final
\* exclusive or, modulo 2^32.
RECURSIVE RefCrcBits(_, _)
RefCrcBits(crc, k) ==
  IF k = 0 THEN crc
  ELSE IF crc[1] >= 32768
    THEN RefCrcBits(Xor32(<< (crc[1] * 2 + crc[2] \div 32768) % 65536,
                             (crc[2] * 2) % 65536 >>,
                          << 1217, 7607 >>),
                    k - 1)
    ELSE RefCrcBits(<< (crc[1] * 2 + crc[2] \div 32768) % 65536,
                       (crc[2] * 2) % 65536 >>,
                    k - 1)

RECURSIVE RefCrcFrom(_, _, _)
RefCrcFrom(bytes, i, crc) ==
  IF i > Len(bytes) \/ crc[1] < 0 THEN crc
  ELSE RefCrcFrom(bytes, i + 1,
                  RefCrcBits(Xor32(crc, << bytes[i] * 256, 0 >>), 8))

\* Bytes 22..25 of a page (counted from 0), as a 32-bit value, and the page
\* with those bytes set to zero.
StoredCrc(page) == << page[26] * 256 + page[25], page[24] * 256 + page[23] >>

CrcZeroed(page) == [i \in 1..Len(page) |-> IF i \in 23..26 THEN 0 ELSE page[i]]

\* C21: the value stored at bytes 22..25 of a page that _build_ogg_page
\* returns is the Ogg CRC-32 of the whole page with those four bytes zero.
C21_PagePassesCrc ==
  call.pc = "returned" =>
    StoredCrc(call.page) = RefCrcFrom(CrcZeroed(call.page), 1, << 0, 0 >>)

\* C21 witness: the page of a two-byte audio packet has been stamped, and
\* its CRC is not zero.
C21_Witness ==
  /\ call.pc = "returned"
  /\ call.packet = << 255, 0 >>
  /\ Len(call.page) = 30
  /\ StoredCrc(call.page) # << 0, 0 >>

\* ------------------------------------------------------------------- C22
\* The blank inserted at call.at stands between two equal non-blank ids.
SplitsRepeat ==
  /\ call.at > 1
  /\ call.at < Len(call.token_ids)
  /\ call.token_ids[call.at - 1] = call.token_ids[call.at + 1]
  /\ call.token_ids[call.at - 1] # 0

\* C22 as stated: the text decoded from token ids is the text decoded from
\* the same ids with one more blank (id 0) inserted at any position.
C22_BlankInsertionAsClaimed ==
  (call.pc = "decoded" /\ call.edit = "blank") => call.text = call.before

\* C22, amended: the text decoded from token ids is the text decoded from
\* the same ids with one more blank (id 0) inserted at any position that is
\* not between two equal non-blank ids.
C22_BlankInsertion ==
  (call.pc = "decoded" /\ call.edit = "blank" /\ ~SplitsRepeat)
    => call.text = call.before

\* C22 witness: a blank was inserted between two different words and the
\* decoded text is the two words, as before.
C22_Witness ==
  /\ call.pc = "decoded"
  /\ call.edit = "blank"
  /\ call.token_ids = << 1, 0, 2 >>
  /\ call.text = << "b", "a" >>
  /\ call.before = << "b", "a" >>

\* ------------------------------------------------------------------- C23
\* C23: the text decoded from token ids is the text decoded from the same
\* ids with one non-blank id repeated immediately next to itself.
C23_Duplication ==
  (call.pc = "decoded" /\ call.edit = "dup") => call.text = call.before

\* C23 witness: the id of a word was repeated and the decoded text is still
\* the one word.
C23_Witness ==
  /\ call.pc = "decoded"
  /\ call.edit = "dup"
  /\ call.token_ids = << 1, 1 >>
  /\ call.text = << "a" >>

\* ------------------------------------------------------------------- C24
\* C24 as stated: parsing the `<tok> <i>` lines of a vocabulary returns the
\* vocabulary.
C24_LeftInverseAsClaimed ==
  call.pc = "parsed" => call.tokens = Some(call.vocabulary)

\* A vocabulary whose last id is specified and whose tokens have no blank at
\* either end and no line break.
Representable(vocabulary) ==
  /\ vocabulary # << >>
  /\ vocabulary[Len(vocabulary)] # << >>
  /\ \A k \in 1..Len(vocabulary) :
       /\ Strip(vocabulary[k]) = vocabulary[k]
       /\ \A j \in 1..Len(vocabulary[k]) : vocabulary[k][j] # "\n"

\* C24, amended: parsing the `<tok> <i>` lines of a vocabulary returns the
\* vocabulary when its last id is specified and no token starts or ends with
\* a blank or holds a line break.
C24_LeftInverse ==
  (call.pc = "parsed" /\ Representable(call.vocabulary))
    => call.tokens = Some(call.vocabulary)

\* C24 witness: a vocabulary with an unspecified id 0 and a token with an
\* inner blank at id 1 has come back from its file.
C24_Witness ==
  /\ call.pc = "parsed"
  /\ call.vocabulary = << << >>, << "a", " ", "7" >> >>
  /\ call.content = << "a", " ", "7", " ", "1" >>
  /\ call.tokens = Some(call.vocabulary)

\* ------------------------------------------------------------------- C25
\* C25 as stated: for empty PCM the features have no mel frame and no LFR
\* row, and the engine returns the empty text without running inference.
C25_EmptyPcmAsClaimed ==
  (call.samples = 0 /\ call.sample_rate = EngineSampleRate)
    => /\ call.pc \in { "lfr", "features", "returned" } => call.t = 0
       /\ call.pc \in { "features", "returned" } => call.x_len = 0
       /\ call.pc = "returned" => (~call.ran /\ call.text = Some(EmptyText))

\* ------------------------------------------------------------------- C26
\* The values of a metadata vector that are not blank.
MetaParts(value) ==
  IF value = None THEN << >>
  ELSE SelectSeq(SplitCommaFrom(value[1], 1, << >>),
                 LAMBDA p : Strip(p) # << >>)

\* C26: an engine constructed in CTC mode has an LFR window that divides
\* feature_dim, n_mels = feature_dim / window, and both CMVN vectors, as
\* stored and as given in the metadata, of length feature_dim; every other
\* model makes the constructor raise.
C26_AcceptedProfile ==
  call.pc \in { "session", "constructed" } =>
    /\ call.lfr_m # 0
    /\ call.n_mels * call.lfr_m = call.feature_dim
    /\ call.shape = Some(call.feature_dim)
    /\ Len(call.cmvn_neg_mean) = call.feature_dim
    /\ Len(call.cmvn_inv_stddev) = call.feature_dim
    /\ Len(MetaParts(call.meta.neg_mean)) = call.feature_dim
    /\ Len(MetaParts(call.meta.inv_stddev)) = call.feature_dim

\* C26 witness: a model with feature_dim 4 and window 2 was accepted; its
\* neg_mean had blank fields that do not count.
C26_Witness ==
  /\ call.pc = "constructed"
  /\ call.feature_dim = 4
  /\ call.lfr_m = 2
  /\ call.n_mels = 2
  /\ Len(call.meta.neg_mean[1]) > 7
  /\ Len(call.cmvn_neg_mean) = 4

\* ------------------------------------------------------------------- C27
\* C27 as stated: when the constructor rejects the profile of a model that
\* is present, startup does not reach the ready state and no engine serves
\* the sessions.
C27_InvalidProfileFatalAsClaimed ==
  (call.exists /\ call.error \in ProfileErrors) => call.pc # "ready"

\* ------------------------------------------------------------------- C28
\* C28: decoding an empty packet list never raises, whatever the input
\* sample rate, and returns an empty PCM buffer whose sample_rate is the
\* output rate asked for and whose channels is 1.
C28_EmptyListDecodes ==
  (call.pc # "decode" /\ call.packets = << >>)
    => /\ call.pc = "returned"
       /\ call.result = Some([pcm_s16le |-> 0,
                              sample_rate |-> call.output_sample_rate,
                              channels |-> 1])

\* C28 witness: an empty list was decoded with an input rate that the muxer
\* refuses and an output rate other than the default.
C28_Witness ==
  /\ call.pc = "returned"
  /\ call.packets = << >>
  /\ call.input_sample_rate = 44100
  /\ call.output_sample_rate = 8000
  /\ call.result[1].sample_rate = 8000

\* ------------------------------------------------------------------- C29
\* The model file is missing under the base path: the one main resolved,
\* or would have resolved had the command line been accepted.
ModelMissing ==
  ModelPath(IF call.pc = "exited"
              THEN ResolveBasePath(call.environ.GHOSTTYPE_BASE_PATH,
                                   call.frozen)
              ELSE call.base_path)
    \notin call.files

\* C29: when the model file is missing under the resolved base path, main
\* ends with exit code 2 and has started neither the server nor the GUI,
\* whatever --host, --port, --no-gui and --run-server are.
C29_MissingModelExits2 ==
  (call.pc \in { "returned", "exited" } /\ ModelMissing)
    => (call.code = Some(2) /\ call.started = "none")

\* C29 witness: with --run-server, a host and a port given and a model only
\* in the source tree, main resolved the base path from the environment and
\* returned 2.
C29_Witness ==
  /\ call.pc = "returned"
  /\ call.argv.run_server
  /\ call.argv.host = Some(<< "h" >>)
  /\ call.argv.port = Some(<< "9" >>)
  /\ call.base_path = << << "e" >> >>
  /\ call.files = { ModelPath(SourceDir) }
  /\ call.code = Some(2)
  /\ call.started = "none"

\* ------------------------------------------------------------------- C30
\* C30 as stated: the model path of the service is the one under
\* GHOSTTYPE_BASE_PATH, which main has set to the base path whose model it
\* found.
C30_ServiceModelPathAsClaimed ==
  (call.pc = "returned" /\ call.started = "server")
    => /\ call.service_model_path =
            ModelPath(PathOf(call.environ.GHOSTTYPE_BASE_PATH[1]))
       /\ call.service_model_path = call.model_path

\* ------------------------------------------------------------------- C31
\* The vocabulary that the metadata holds: that of the first key, in order,
\* that resolves to a non-empty list.
MetaVocabulary(meta) ==
  LET v == LoadFromMetadataWithSession(TRUE, meta)
  IN IF v # None /\ v[1] # << >> THEN v ELSE None

\* C31 as stated: the vocabulary of the engine is the metadata's when a key
\* resolves, the token files are read only when none does, and it is None
\* only when neither source resolves.
C31_VocabularyOrderAsClaimed ==
  call.pc = "loaded" =>
    IF MetaVocabulary(call.meta) # None
      THEN call.token_list = MetaVocabulary(call.meta) /\ ~call.read_files
      ELSE call.token_list = LoadFromFiles(call.files)

\* ------------------------------------------------------------------- C32
\* C32 as stated: with cpu_session created, construction does not fail; a
\* failure on a backend other than the CPU ends with a warning and the CPU
\* session.
C32_BackendFallbackAsClaimed ==
  /\ call.pc # "raised"
  /\ (call.pc = "constructed" /\ call.attempts # << >>
        /\ \A k \in 1..Len(call.attempts) : ~call.attempts[k].ok)
       => (call.warned /\ call.session = Some(<< CPU >>))

\* ------------------------------------------------------------------- C33
\* The candidate devices as the claim lists them; an override is the first
\* of the two variables that is not empty.
ClaimedDmlIds ==
  IF call.dml_device_id # None THEN << 2 >>
  ELSE IF call.ghosttype_id = Some(<< "3" >>) THEN << 3 >>
  ELSE IF call.ghosttype_id \in { None, Some(<< >>) }
          /\ call.ort_id = Some(<< "4" >>) THEN << 4 >>
  ELSE IF call.ghosttype_id \in { None, Some(<< >>) } /\ call.ort_id = None
    THEN << 1, 0 >>
  ELSE call.dml_ids

\* C33: with DirectML requested, the devices tried are the configured one,
\* else the one of the environment, else 1 then 0; they are tried once each
\* in that order until one succeeds, at most two of them; when all fail the
\* session is the CPU session, with a warning, and nothing is raised.
C33_DmlAttempts ==
  (call.pc \in { "dml", "constructed", "raised" }
     /\ \E k \in 1..Len(call.requested) : call.requested[k] = DML)
    => /\ call.pc # "raised"
       /\ call.dml_ids = ClaimedDmlIds
       /\ Len(call.attempts) <= Len(call.dml_ids)
       /\ Len(call.attempts) <= 2
       /\ \A k \in 1..Len(call.attempts) :
            /\ call.attempts[k].device_id = Some(call.dml_ids[k])
            /\ call.attempts[k].ok => k = Len(call.attempts)
       /\ call.pc = "constructed" =>
            IF call.attempts[Len(call.attempts)].ok
              THEN call.session = Some(call.requested)
              ELSE /\ Len(call.attempts) = Len(call.dml_ids)
                   /\ call.session = Some(<< CPU >>)
                   /\ call.warned

\* C33 witness: devices 1 and 0 were tried in that order, both failed, and
\* the engine holds the CPU session.
C33_Witness ==
  /\ call.pc = "constructed"
  /\ Len(call.attempts) = 2
  /\ call.attempts[1].device_id = Some(1)
  /\ call.attempts[2].device_id = Some(0)
  /\ ~call.attempts[2].ok
  /\ call.session = Some(<< CPU >>)
  /\ call.warned

\* ------------------------------------------------------------------- C34
\* C34 as stated: the providers requested are the caller's list, or the
\* default one, restricted to the available ones in the caller's order and
\* without DirectML for a quantized model; the CPU alone when none is left.
C34_RequestedProvidersAsClaimed ==
  call.pc # "providers" =>
    LET list == IF call.preferred \in { None, Some(<< >>) }
                  THEN << CUDA, CoreML, DML, CPU >> ELSE call.preferred[1]
        quant == call.onnx_infer \in
                   { Some(<< "onnxruntime.quant" >>),
                     Some(<< " ", "onnxruntime.quant", " " >>) }
        listed == SelectSeq(list, LAMBDA p :
                    /\ \E k \in 1..Len(call.available) : call.available[k] = p
                    /\ ~(p = DML /\ quant))
    IN call.requested = IF listed = << >> THEN << CPU >> ELSE listed

\* ------------------------------------------------------------------- C35
\* C35: the inferences of one call in waveform mode are made on the shapes
\* [1, N], [N], [1, 1, N] in that order; an inference that succeeds is the
\* last one and its result is returned; the inference failure is raised
\* only after three failed inferences, and carries the message of the last.
C35_ShapeAttempts ==
  LET n == call.pcm_bytes \div 2 IN
  /\ Len(call.attempts) <= 3
  /\ \A k \in 1..Len(call.attempts) :
       /\ call.attempts[k].shape = << << 1, n >>, << n >>, << 1, 1, n >> >>[k]
       /\ call.attempts[k].exc = None =>
            /\ k = Len(call.attempts)
            /\ call.pc = "returned"
            /\ call.result = Some(<< "text", call.attempts[k].shape >>)
  /\ (call.pc = "returned" /\ call.attempts # << >>)
       => call.attempts[Len(call.attempts)].exc = None
  /\ (call.pc = "raised" /\ call.error # Some(<< "ValueError" >>))
       => /\ Len(call.attempts) = 3
          /\ \A k \in 1..3 : call.attempts[k].exc # None
          /\ call.error = Some(<< "onnx inference failed: ",
                                  call.attempts[3].exc[1] >>)
  /\ (Len(call.attempts) = 3 /\ call.attempts[3].exc # None)
       => call.pc \in { "shapes", "raised" }

\* C35 witness: [1, N] and [N] failed and [1, 1, N] gave the result.
C35_Witness ==
  /\ call.pc = "returned"
  /\ Len(call.attempts) = 3
  /\ call.attempts[1].exc = Some("e1")
  /\ call.attempts[2].exc = Some("e2")
  /\ call.attempts[3].shape = << 1, 1, 2 >>
  /\ call.result = Some(<< "text", << 1, 1, 2 >> >>)

\* ------------------------------------------------------------------- C36
SumLacing(lacing) ==
  LET RECURSIVE Sum(_, _)
      Sum(lo, hi) == IF lo > hi THEN 0
                     ELSE IF lo = hi THEN lacing[lo]
                     ELSE Sum(lo, (lo + hi) \div 2)
                            + Sum(((lo + hi) \div 2) + 1, hi)
  IN Sum(1, Len(lacing))

\* C36: the table of a packet of L >= 0 bytes is L div 255 values of 255 and
\* then the value L mod 255, between 0 and 254; its values add up to L; the
\* packet is refused when L >= 65025 and accepted when L is smaller.
C36_SegmentTable ==
  LET L == call.packet_len IN
  (L >= 0 /\ call.pc \in { "table", "accepted", "raised" })
    => /\ Len(call.lacing) = (L \div 255) + 1
       /\ \A k \in 1..(L \div 255) : call.lacing[k] = 255
       /\ call.lacing[Len(call.lacing)] = L % 255
       /\ call.lacing[Len(call.lacing)] \in 0..254
       /\ SumLacing(call.lacing) = L
       /\ call.pc = "raised" => L >= 65025
       /\ call.pc = "accepted" => L < 65025

\* C36 witness: 65024 bytes, a table of 255 values closed by 254, accepted.
C36_Witness ==
  /\ call.pc = "accepted"
  /\ call.packet_len = 65024
  /\ Len(call.lacing) = 255
  /\ call.lacing[255] = 254

\* ------------------------------------------------------------------- C37
\* C37 as stated: once the handling of a stop that logged `ASR inference
\* started` is over, it has logged `ASR inference completed` too, whether
\* the recognizer returned or raised.
C37_CompletedFollowsStartedAsClaimed ==
  (pc \notin Pipeline /\ "ASR inference started" \in logged)
    => "ASR inference completed" \in logged

\* ------------------------------------------------------------------- C38
\* C38 as stated: when websocket_endpoint is over, by return or by an
\* exception, the last handler has logged `Client disconnected`.
C38_DisconnectLoggedAsClaimed ==
  pc \in Ended => "Client disconnected" \in logged

\* ------------------------------------------------------------------- C39
SumBytes(packets) ==
  LET RECURSIVE Sum(_)
      Sum(k) == IF k > Len(packets) THEN 0 ELSE packets[k] + Sum(k + 1)
  IN Sum(1)

\* C39: in every state of the session packet_count is the number of packets
\* in the buffer and total_bytes is the sum of their lengths.
C39_CountersMatchBuffer ==
  /\ packet_count = Len(opus_packets)
  /\ total_bytes = SumBytes(opus_packets)

\* C39 witness: two packets of different lengths are in the buffer after a
\* finalization has emptied it.
C39_Witness ==
  /\ finalizedSinceStart
  /\ Len(opus_packets) = 2
  /\ opus_packets[1] # opus_packets[2]
  /\ packet_count = 2
  /\ total_bytes = opus_packets[1] + opus_packets[2]

\* ------------------------------------------------------------------- C40
\* C40 as stated: connected_clients is never negative, and once every line
\* read has been handled the tray shows ERROR when the error flag is set,
\* else PROCESSING when the processing flag is set, else CONNECTED when
\* connected_clients > 0, else IDLE.
C40_TrayStatusAsClaimed ==
  /\ call.state.connected_clients >= 0
  /\ (\A t \in PumpThreads : call.thread[t].pc = "idle")
       => call.icon =
            IF call.state.error THEN "error"
            ELSE IF call.state.processing THEN "processing"
            ELSE IF call.state.connected_clients > 0 THEN "connected"
            ELSE "idle"

====
